---- MODULE Spec2Model ----
(***************************************************************************)
(* Model of the miel frame engine: Context::render_frame, the swapchain    *)
(* acquire/submit/present cycle, CommandManager::render_command and        *)
(* immediate_command, RenderGraph::render and the ResourceInfoRegistry.    *)
(* The GPU is a second process: it executes submissions asynchronously     *)
(* and signals the fence given with each submission.                       *)
(***************************************************************************)
EXTENDS Naturals, Integers, Sequences, FiniteSets, TLC

(***************************************************************************)
(* Bounds of the model.                                                    *)
(***************************************************************************)
NumImages == 2          \* presentable images the surface hands out
MaxFrames == 3          \* render_frame calls explored
MaxSwapchains == 3      \* native swapchains ever created
MaxBinds == 1           \* bind_rendergraph calls explored
MaxRebinds == 2         \* bind_rendergraph calls explored when rebinding
MaxBindFrames == 1      \* render_frame calls explored when rebinding
MaxIds == 4             \* ResourceID::new_v4() calls explored
BufLen == 2             \* bytes in the staging and destination buffers
MaxImmCalls == 2        \* immediate_command calls explored
MaxNestedCalls == 1     \* immediate_command calls made by recorders
MaxNatives == 3         \* native images and buffers the driver hands out
MaxAdds == 2            \* successful add_image_attachment calls explored

(***************************************************************************)
(* Program constants.                                                      *)
(***************************************************************************)
\* u32::MAX, the current_image_index of a fresh swapchain; written as the
\* largest 32-bit signed integer, it only has to lie beyond every slot
U32_MAX == 2147483647
NilId == 0              \* Uuid::nil(), the derived Default of a ResourceID

Slots == 0 .. (NumImages - 1)

UNDEFINED == "UNDEFINED"
COLOR_ATTACHMENT_OPTIMAL == "COLOR_ATTACHMENT_OPTIMAL"
DEPTH_STENCIL_ATTACHMENT_OPTIMAL == "DEPTH_STENCIL_ATTACHMENT_OPTIMAL"
PRESENT_SRC_KHR == "PRESENT_SRC_KHR"

\* vk::Extent2D values; the surface may report the special value (MAX, MAX)
Extents == {"1280x720", "800x600"}
SpecialExtent == "MAXxMAX"
InitialSuggestedSize == "1280x720"

VARIABLES
    pc,             \* position of the thread driving render_frame
    lastResult,     \* what the last finished render_frame returned
    acquireState,   \* NextImageState of this frame's acquire
    swapchain,      \* Context.swapchain
    newSwapchain,   \* value built by Swapchain::new, not yet assigned
    nextHandle,     \* next native swapchain handle the driver hands out
    nativeAlive,    \* native swapchain handles alive on the surface
    surfaceExtent,  \* surface.capabilities.current_extent
    lastSuggested,  \* suggested_size of the last Swapchain::new call
    destroyed,      \* log of native objects destroyed by Swapchain::drop
    oodHandles,     \* swapchain handles whose acquire reported OutOfDate
    renderBuf,      \* state of rendering_cmd_buffer
    recorded,       \* commands recorded in rendering_cmd_buffer
    inflight,       \* submissions the GPU has not finished yet
    gpu,            \* the layouts the images really have on the GPU
    graph,          \* Context.render_graph
    passIdx,        \* pass RenderGraph::render is about to process
    ops,            \* calls made by the current render_frame, in order
    submitted,      \* queue submissions made by the current render_frame
    presented,      \* present requests made by the current render_frame
    frame,          \* number of render_frame calls started
    binds,          \* number of bind_rendergraph calls made
    lastBind,       \* what the last bind_rendergraph was given and returned
    registry,       \* a ResourceInfoRegistry the host is filling
    held,           \* ImageAttachmentInfo values the host holds
    nextId,         \* the next value ResourceID::new_v4() yields
    returned,       \* IDs returned by successful add_image_attachment calls
    lastAdd,        \* the last add_image_attachment call and its result
    clones,         \* <<id of the original, id of the clone>> of every clone
    immPc,          \* position of the thread inside immediate_command
    immResult,      \* what the last finished immediate_command returned
    immBuf,         \* state of immediate_cmd_buffer
    immRecorded,    \* commands recorded in immediate_cmd_buffer
    immFence,       \* state of immediate_fence
    immInflight,    \* immediate submissions the GPU has not finished yet
    srcBuffer,      \* bytes of the copy's source buffer
    dstBuffer,      \* bytes of the copy's destination buffer
    copySize,       \* N of the copy recorded by the current call
    immCalls,       \* number of immediate_command calls started
    deviceLock,     \* holder of the mutex around the Device, or "free"
    natives,        \* native images, views and buffers alive on the device
    allocations,    \* every Allocation issued: released or not, times freed
    allocatorLock,  \* whether the allocator's mutex is held
    resPc,          \* position of the thread inside create_resources
    todo,           \* descriptions create_resources has still to build
    made,           \* attachments collected so far by create_resources
    heldImages,     \* the GraphResourceRegistry the host holds
    heldBuffers,    \* the Buffer values the host holds
    nextNative,     \* the next native handle the driver hands out
    lastBuild,      \* the last Image or Buffer build and how it ended
    lastCreate,     \* the last create_resources call and how it ended
    lastUpload,     \* the last upload_pod or upload_data call
    lastDrop,       \* the device and allocator calls of the last drop
    upload          \* the upload_vertex_buffer / upload_index_buffer call

vars == <<lastBind, pc, lastResult, acquireState, swapchain, newSwapchain, nextHandle,
          nativeAlive, surfaceExtent, lastSuggested, destroyed, oodHandles,
          renderBuf, recorded, inflight, gpu, graph, passIdx, ops, submitted,
          presented, frame, binds, registry, held, nextId, returned, lastAdd,
          clones, immPc, immResult, immBuf, immRecorded, immFence,
          immInflight, srcBuffer, dstBuffer, copySize, immCalls, deviceLock,
          natives,
          allocations, allocatorLock, resPc, todo, made, heldImages,
          heldBuffers, nextNative, lastBuild, lastCreate, lastUpload,
          lastDrop, upload>>

frameVars == <<lastBind, pc, lastResult, acquireState, swapchain, newSwapchain,
               nextHandle, nativeAlive, surfaceExtent, lastSuggested,
               destroyed, oodHandles, renderBuf, recorded, inflight, gpu,
               graph, passIdx, ops, submitted, presented, frame, binds>>

registryVars == <<registry, held, nextId, returned, lastAdd, clones>>

immediateData == <<immPc, immResult, immBuf, immRecorded, immFence,
                   immInflight, srcBuffer, dstBuffer, copySize, immCalls>>

immediateVars == <<immediateData, deviceLock>>

resourceVars == <<natives, allocations, allocatorLock, resPc, todo, made,
                  heldImages, heldBuffers, nextNative, lastBuild, lastCreate,
                  lastUpload, lastDrop>>

meshVars == <<upload>>

swapVars == <<newSwapchain, nextHandle, nativeAlive, surfaceExtent,
              lastSuggested, destroyed>>

(***************************************************************************)
(* Helpers.                                                                *)
(***************************************************************************)
RECURSIVE SetToSeq(_)
SetToSeq(S) ==
    IF S = {} THEN <<>>
    ELSE LET x == CHOOSE y \in S : TRUE IN <<x>> \o SetToSeq(S \ {x})

Return(r) == pc' = "idle" /\ lastResult' = r

Op(name, arg) == <<name, arg>>

Cmd(kind, barriers, arg) == [kind |-> kind, image_barriers |-> barriers, arg |-> arg]

Barrier(img, old, new, access) ==
    [image |-> img, old_layout |-> old, new_layout |-> new, dst_access |-> access]

(***************************************************************************)
(* Swapchain (gfx/swapchain.rs).                                           *)
(***************************************************************************)
NoSwapchain == [handle |-> 0]

\* what a second lock() of a std::sync::Mutex by its holder may do
RelockOutcomes == {"deadlock", "panic"}

\* Swapchain::new: the extent is the surface's current extent unless that is
\* the special value, every color image starts UNDEFINED, the present fence
\* is created SIGNALED and current_image_index is the sentinel.
Swapchain_new(handle, suggested_size) ==
    [handle |-> handle,
     extent |-> IF surfaceExtent = SpecialExtent THEN suggested_size
                ELSE surfaceExtent,
     layout |-> [s \in Slots |-> UNDEFINED],
     depth_layout |-> [s \in Slots |-> UNDEFINED],
     present_fence |-> "signaled",
     current_image_index |-> U32_MAX]

\* a Drop that forgets the acquire semaphore
Swapchain_drop_LeakSemaphore(sc) ==
    <<<<"present_fence", sc.handle, 0>>>>
    \o [i \in 1 .. NumImages |-> <<"render_semaphore", sc.handle, i - 1>>]
    \o [i \in 1 .. NumImages |-> <<"image_view", sc.handle, i - 1>>]
    \o <<<<"swapchain", sc.handle, 0>>>>
    \o [i \in 1 .. NumImages |-> <<"depth_image", sc.handle, i - 1>>]

\* a Drop that destroys the native swapchain before the views of its images
Swapchain_drop_SwapchainFirst(sc) ==
    <<<<"present_fence", sc.handle, 0>>>>
    \o [i \in 1 .. NumImages |-> <<"render_semaphore", sc.handle, i - 1>>]
    \o <<<<"image_acquired_semaphore", sc.handle, 0>>>>
    \o <<<<"swapchain", sc.handle, 0>>>>
    \o [i \in 1 .. NumImages |-> <<"image_view", sc.handle, i - 1>>]
    \o [i \in 1 .. NumImages |-> <<"depth_image", sc.handle, i - 1>>]

\* impl Drop for Swapchain, followed by the drop of its fields: the native
\* objects of swapchain sc in the order they are destroyed.
Swapchain_drop(sc) ==
    <<<<"present_fence", sc.handle, 0>>>>
    \o [i \in 1 .. NumImages |-> <<"render_semaphore", sc.handle, i - 1>>]
    \o <<<<"image_acquired_semaphore", sc.handle, 0>>>>
    \o [i \in 1 .. NumImages |-> <<"image_view", sc.handle, i - 1>>]
    \o <<<<"swapchain", sc.handle, 0>>>>
    \o [i \in 1 .. NumImages |-> <<"depth_image", sc.handle, i - 1>>]

\* the image the command buffer names: swapchain images carry the handle of
\* their swapchain, graph images the generation of their graph
ColorImage(sc) == <<"color", sc.handle, sc.current_image_index>>
DepthImage(sc) == <<"depth", sc.handle, sc.current_image_index>>
AttachmentImage(g, id) == <<"att", g.gen, id>>
NoImage == <<"none", 0, 0>>

\* Swapchain::ensure_presentable: the image barriers it builds
EnsurePresentableBarriers(sc) ==
    IF sc.layout[sc.current_image_index] # PRESENT_SRC_KHR
    THEN <<Barrier(ColorImage(sc), sc.layout[sc.current_image_index],
                   PRESENT_SRC_KHR, "NONE")>>
    ELSE <<>>

\* enum AttachmentSize { SwapchainBased, Custom(vk::Extent3D) }
SwapchainBased == [kind |-> "SwapchainBased"]

Custom(extent3_d) == [kind |-> "Custom", extent |-> extent3_d]

\* vk::Extent3D::default()
Extent3D_default == <<0, 0, 0>>

\* From<vk::Extent2D> for vk::Extent3D: the depth becomes 1
Extent3D_from(extent_2d) ==
    IF extent_2d = "1280x720" THEN <<1280, 720, 1>> ELSE <<800, 600, 1>>

\* the extents a host asks for with AttachmentSize::Custom
CustomExtents == {Extent3D_default, <<4, 4, 2>>}

\* ImageCreateInfo::from_attachment_info
from_attachment_info(info) ==
    [extent |-> IF info.size.kind = "SwapchainBased"
                THEN Extent3D_default
                ELSE info.size.extent,
     format |-> info.format,
     array_layers |-> info.layer_count,
     usage |-> info.usage,
     allocation_name |-> info.name]

\* ImageCreateInfo::build, up to the call of build_from_base_structs
ImageCreateInfo_build(create_info, sc) ==
    IF create_info.extent = Extent3D_default
    THEN [create_info EXCEPT !.extent = Extent3D_from(sc.extent)]
    ELSE create_info

\* the width and height of a vk::Extent3D (ImageState.extent_2d)
Extent2D_of(extent) == <<extent[1], extent[2]>>

\* width and height of area fit into those of extent
FitsIn(area, extent) == area[1] <= extent[1] /\ area[2] <= extent[2]

(***************************************************************************)
(* Render graph (gfx/render_graph).                                        *)
(***************************************************************************)
\* a default graph that carries a pass declaring an attachment
RenderGraph_empty_WithPass ==
    [render_passes |-> <<[color_attachments |-> (9 :> "WriteOnly"),
                          depth_stencil_attachment |-> {}]>>,
     attachments |-> {},
     layout |-> [id \in {} |-> UNDEFINED],
     extent |-> [id \in {} |-> Extent3D_default],
     swapchain_color_attachment |-> NilId,
     swapchain_ds_attachment |-> NilId,
     gen |-> 0]

\* RenderGraph::empty: no pass, GraphResourceRegistry::default()
RenderGraph_empty ==
    [render_passes |-> <<>>,
     attachments |-> {},
     layout |-> [id \in {} |-> UNDEFINED],
     extent |-> [id \in {} |-> Extent3D_default],
     swapchain_color_attachment |-> NilId,
     swapchain_ds_attachment |-> NilId,
     gen |-> 0]

\* FrameResources::get_mut: the swapchain IDs resolve against the resources
\* handed in for this frame, every other ID against the graph-owned registry
FrameResources_get_mut(g, sc, id) ==
    IF id = g.swapchain_color_attachment THEN ColorImage(sc)
    ELSE IF id = g.swapchain_ds_attachment THEN DepthImage(sc)
    ELSE IF id \in g.attachments THEN AttachmentImage(g, id)
    ELSE NoImage

\* FrameResourceRegistry::get_image_state: the color ID is compared first,
\* then the depth/stencil ID, then the graph's attachments
get_image_state(g, sc, id) ==
    IF g.swapchain_color_attachment = id THEN ColorImage(sc)
    ELSE IF g.swapchain_ds_attachment = id THEN DepthImage(sc)
    ELSE IF id \in g.attachments THEN AttachmentImage(g, id)
    ELSE NoImage

\* the tracked layout (ImageState.layout / SwapchainImage.layout) of an image
TrackedLayout(g, sc, img) ==
    CASE img[1] = "color" -> sc.layout[img[3]]
      [] img[1] = "depth" -> sc.depth_layout[img[3]]
      [] OTHER -> g.layout[img[3]]

\* the swapchain / the graph after the tracked layout of imgs became new
SwapchainWithLayout(sc, imgs, new) ==
    [sc EXCEPT
        !.layout = [s \in Slots |->
            IF <<"color", sc.handle, s>> \in imgs THEN new ELSE @[s]],
        !.depth_layout = [s \in Slots |->
            IF <<"depth", sc.handle, s>> \in imgs THEN new ELSE @[s]]]

\* a graph whose images do not remember the layout they were moved to
GraphWithLayout_Untracked(g, imgs, new) == g

GraphWithLayout(g, imgs, new) ==
    [g EXCEPT !.layout = [id \in g.attachments |->
        IF AttachmentImage(g, id) \in imgs THEN new ELSE @[id]]]

\* match access_type { ReadOnly => READ, WriteOnly => WRITE, ReadWrite => both }
DstAccessMask(access_type) ==
    CASE access_type = "ReadOnly" -> "COLOR_ATTACHMENT_READ"
      [] access_type = "WriteOnly" -> "COLOR_ATTACHMENT_WRITE"
      [] OTHER -> "COLOR_ATTACHMENT_READ|COLOR_ATTACHMENT_WRITE"

\* ImageState::cmd_layout_transition: one pipeline barrier with one image
\* barrier from the tracked layout to the barrier's new layout
cmd_layout_transition(g, sc, img, new, access) ==
    Cmd("pipeline_barrier",
        <<Barrier(img, TrackedLayout(g, sc, img), new, access)>>, 0)

\* the passes a host pushes: the g-buffer pass of reime (a graph-owned
\* attachment plus the swapchain's color and depth), an offscreen pass, and
\* two passes that declare an ID the registry never issued
RenderPass(name) ==
    LET color == 1  depth == 2  albedo == 3  foreign == 9 IN
    CASE name = "g-buffer" ->
            [color_attachments |-> (albedo :> "WriteOnly" @@ color :> "WriteOnly"),
             depth_stencil_attachment |-> {depth}]
      [] name = "offscreen" ->
            [color_attachments |-> (albedo :> "ReadWrite"),
             depth_stencil_attachment |-> {}]
      [] name = "bad-color" ->
            [color_attachments |-> (color :> "ReadOnly" @@ foreign :> "WriteOnly"),
             depth_stencil_attachment |-> {}]
      [] OTHER ->
            [color_attachments |-> (color :> "WriteOnly"),
             depth_stencil_attachment |-> {foreign}]

PassLists ==
    {<<RenderPass("g-buffer")>>,
     <<RenderPass("offscreen"), RenderPass("g-buffer")>>,
     <<RenderPass("offscreen"), RenderPass("bad-color")>>,
     <<RenderPass("g-buffer"), RenderPass("bad-depth")>>}

\* RenderGraphInfo::new(resources) followed by push_render_pass calls, the
\* registry being ResourceInfoRegistry::new() with one attachment added
RenderGraphInfos ==
    LET color == 1  depth == 2  albedo == 3 IN
    {[render_passes |-> ps,
      infos |-> {albedo},
      sizes |-> (albedo :> IF ps[1] = RenderPass("offscreen")
                           THEN Custom(<<4, 4, 2>>)
                           ELSE SwapchainBased),
      swapchain_color_attachment |-> color,
      swapchain_ds_attachment |-> depth] : ps \in PassLists}

\* RenderGraph::new on a successful create_resources: every image is built
\* with the default initial layout
RenderGraph_new(info, gen, sc) ==
    [render_passes |-> info.render_passes,
     attachments |-> info.infos,
     layout |-> [id \in info.infos |-> UNDEFINED],
     extent |-> [id \in info.infos |->
        ImageCreateInfo_build(
            from_attachment_info([size |-> info.sizes[id],
                                  format |-> "UNDEFINED",
                                  layer_count |-> 1,
                                  usage |-> "COLOR_ATTACHMENT",
                                  name |-> "albedo"]), sc).extent],
     swapchain_color_attachment |-> info.swapchain_color_attachment,
     swapchain_ds_attachment |-> info.swapchain_ds_attachment,
     gen |-> gen]

(***************************************************************************)
(* The GPU.                                                                *)
(***************************************************************************)
SwapchainImages(sc) ==
    {<<"color", sc.handle, s>> : s \in Slots} \cup
    {<<"depth", sc.handle, s>> : s \in Slots}

GraphImages(g) == {AttachmentImage(g, id) : id \in g.attachments}

RECURSIVE ApplyBarriers(_, _)
ApplyBarriers(layouts, barriers) ==
    IF barriers = <<>> THEN layouts
    ELSE LET b == Head(barriers) IN
         ApplyBarriers(
            [img \in DOMAIN layouts |->
                IF img = b.image THEN b.new_layout ELSE layouts[img]],
            Tail(barriers))

\* the layouts after the GPU has executed the commands of one submission
RECURSIVE ExecuteCommands(_, _)
ExecuteCommands(layouts, cmds) ==
    IF cmds = <<>> THEN layouts
    ELSE ExecuteCommands(ApplyBarriers(layouts, Head(cmds).image_barriers),
                         Tail(cmds))

(***************************************************************************)
(* Context::render_frame (gfx/context.rs), one action per step.            *)
(***************************************************************************)
\* render_frame without the wait: the fence is reset whatever its state
FenceWaitReturns_NoWait(sc) == TRUE

\* wait_for_fences(&[present_fence], true, u64::MAX) returns once the fence
\* is signaled
FenceWaitReturns(sc) == sc.present_fence = "signaled"

render_frame_wait ==
    /\ pc = "idle" /\ frame < MaxFrames
    /\ FenceWaitReturns(swapchain)
    /\ swapchain' = [swapchain EXCEPT !.present_fence = "unsignaled"]
    /\ frame' = frame + 1
    /\ ops' = <<Op("wait_for_fences", swapchain.handle),
                Op("reset_fences", swapchain.handle)>>
    /\ submitted' = <<>> /\ presented' = <<>>
    /\ acquireState' = "none"
    /\ pc' = "next_image"
    /\ UNCHANGED <<registryVars, immediateVars, resourceVars, lastBind, meshVars>>
    /\ UNCHANGED <<lastResult, swapVars, oodHandles, renderBuf, recorded,
                   inflight, gpu, graph, passIdx, binds>>

\* a render_frame that rebuilds the swapchain on Suboptimal as well
OnNextImageState_SuboptimalRecreates(state) ==
    IF state \in {"OutOfDate", "Suboptimal"} THEN "swapchain_new"
    ELSE "render_command"

\* a render_frame that renders whatever the acquire answered
OnNextImageState_AlwaysRenders(state) == "render_command"

\* match self.swapchain.next_image()? in render_frame: OutOfDate goes to the
\* rebuild, Suboptimal is logged and falls through like Ok
OnNextImageState(state) ==
    IF state = "OutOfDate" THEN "swapchain_new" ELSE "render_command"

\* Swapchain::next_image: Ok / Suboptimal record the acquired index,
\* OutOfDate records nothing, any other error is returned
next_image ==
    /\ pc = "next_image"
    /\ \/ \E index \in Slots, is_suboptimal \in BOOLEAN :
            /\ swapchain' = [swapchain EXCEPT !.current_image_index = index]
            /\ acquireState' = IF is_suboptimal THEN "Suboptimal" ELSE "Ok"
            /\ ops' = Append(ops, Op("acquire_next_image", index))
            /\ pc' = OnNextImageState(acquireState')
            /\ UNCHANGED <<lastResult, oodHandles>>
       \/ /\ nextHandle <= MaxSwapchains
          /\ acquireState' = "OutOfDate"
          /\ oodHandles' = oodHandles \cup {swapchain.handle}
          /\ ops' = Append(ops, Op("acquire_next_image", U32_MAX))
          /\ pc' = OnNextImageState("OutOfDate")
          /\ UNCHANGED <<swapchain, lastResult>>
       \/ /\ Return("ImageAcquisition")
          /\ ops' = Append(ops, Op("acquire_next_image", U32_MAX))
          /\ UNCHANGED <<swapchain, acquireState, oodHandles>>
    /\ UNCHANGED <<registryVars, immediateVars, resourceVars, lastBind, meshVars>>
    /\ UNCHANGED <<swapVars, renderBuf, recorded, inflight, gpu, graph,
                   passIdx, submitted, presented, frame, binds>>

\* a rebuild that suggests the size Context::new started with
RecreateSuggestedSize_Initial(sc) == InitialSuggestedSize

\* the suggested_size argument of the rebuild: self.swapchain.extent
RecreateSuggestedSize(sc) == sc.extent

\* the device mutex while Swapchain::new builds the depth images:
\* drop(device) precedes the build_from_base_structs calls, which take the
\* device themselves
LockDuringDepthImages == "free"

\* the OutOfDate arm: Swapchain::new(.., self.swapchain.extent, ..)? is
\* evaluated while the old swapchain is still alive
render_frame_recreate ==
    /\ pc = "swapchain_new"
    /\ lastSuggested' = RecreateSuggestedSize(swapchain)
    /\ \/ /\ LockDuringDepthImages # "free"
          /\ pc' \in RelockOutcomes
          /\ UNCHANGED <<newSwapchain, nextHandle, nativeAlive, ops,
                         lastResult>>
       \/ /\ LockDuringDepthImages = "free"
          /\ newSwapchain' = Swapchain_new(nextHandle,
                                            RecreateSuggestedSize(swapchain))
          /\ nextHandle' = nextHandle + 1
          /\ nativeAlive' = nativeAlive \cup {nextHandle}
          /\ ops' = Append(ops, Op("Swapchain::new", nextHandle))
          /\ pc' = "swapchain_assign"
          /\ UNCHANGED lastResult
       \/ /\ Return("SwapchainCreation")
          /\ UNCHANGED <<newSwapchain, nextHandle, nativeAlive, ops>>
    /\ UNCHANGED <<registryVars, immediateVars, resourceVars, lastBind, meshVars>>
    /\ UNCHANGED <<acquireState, swapchain, surfaceExtent, destroyed,
                   oodHandles, renderBuf, recorded, inflight, gpu, graph,
                   passIdx, submitted, presented, frame, binds>>

\* self.swapchain = <new>: the old value is dropped (device_wait_idle, then
\* the destroy calls), the new one takes its place; return Ok(())
render_frame_assign ==
    /\ pc = "swapchain_assign"
    /\ inflight = <<>>
    /\ destroyed' = destroyed \o Swapchain_drop(swapchain)
    /\ nativeAlive' = nativeAlive \ {swapchain.handle}
    /\ swapchain' = newSwapchain
    /\ newSwapchain' = NoSwapchain
    /\ gpu' = [img \in (DOMAIN gpu \ SwapchainImages(swapchain))
                        \cup SwapchainImages(newSwapchain) |->
                IF img \in SwapchainImages(newSwapchain) THEN UNDEFINED
                ELSE gpu[img]]
    /\ ops' = Append(ops, Op("drop(Swapchain)", swapchain.handle))
    /\ Return("Ok")
    /\ UNCHANGED <<registryVars, immediateVars, resourceVars, lastBind, meshVars>>
    /\ UNCHANGED <<acquireState, nextHandle, surfaceExtent, lastSuggested,
                   oodHandles, renderBuf, recorded, inflight, graph, passIdx,
                   submitted, presented, frame, binds>>

(***************************************************************************)
(* CommandManager::render_command (gfx/commands.rs) and the closure that   *)
(* runs RenderGraph::render.                                               *)
(***************************************************************************)
\* a render_command whose device guard lives until the function returns
LockDuringCallback_Held == "render_command"

\* the device mutex while f runs: the guard of render_command's first block
\* is dropped at the end of that block, before f is called
LockDuringCallback == "free"

\* reset_command_buffer, begin_command_buffer(ONE_TIME_SUBMIT), then the
\* call of f with swapchain.current_image_resources()
render_command_begin ==
    /\ pc = "render_command"
    /\ \/ /\ renderBuf' = "recording"
          /\ recorded' = <<>>
          /\ ops' = ops \o <<Op("reset_command_buffer", 0),
                             Op("begin_command_buffer(ONE_TIME_SUBMIT)", 0),
                             Op("f", swapchain.current_image_index)>>
          /\ passIdx' = 1
          /\ pc' = "render"
          /\ deviceLock' = LockDuringCallback
          /\ UNCHANGED lastResult
       \/ /\ Return("Reset")
          /\ UNCHANGED <<renderBuf, recorded, ops, passIdx, deviceLock>>
       \/ /\ Return("Begin")
          /\ renderBuf' = "initial"
          /\ recorded' = <<>>
          /\ ops' = Append(ops, Op("reset_command_buffer", 0))
          /\ UNCHANGED <<passIdx, deviceLock>>
    /\ UNCHANGED <<registryVars, immediateData, resourceVars, lastBind, meshVars>>
    /\ UNCHANGED <<acquireState, swapchain, swapVars, oodHandles, inflight,
                   gpu, graph, submitted, presented, frame, binds>>

\* render_command dropping the closure's result: after the failing pass,
\* render has returned and render_command goes on as if it were Ok
OnPassResult_ErrorIgnored(failed) ==
    /\ pc' = "render"
    /\ passIdx' = IF failed THEN Len(graph.render_passes) + 1 ELSE passIdx + 1
    /\ UNCHANGED lastResult

\* how render_command and render_frame go on after a pass of the closure:
\* the `?` on RenderGraph::render's result leaves both at the first error
OnPassResult(failed) ==
    IF failed
    THEN Return("InvalidResource") /\ passIdx' = passIdx
    ELSE pc' = "render" /\ passIdx' = passIdx + 1 /\ UNCHANGED lastResult

\* the extent of an image: a swapchain image has the swapchain's, a
\* graph-owned one the extent it was built with
ImageExtent(g, sc, img) ==
    IF img[1] \in {"color", "depth"} THEN Extent3D_from(sc.extent)
    ELSE g.extent[img[3]]

\* the vk::RenderingInfo of a pass: the render area is the extent of the
\* frame's swapchain color image, the attachments are the views of the
\* images the pass declared
RenderingInfo(g, sc, p) ==
    [render_area |-> Extent2D_of(ImageExtent(g, sc, ColorImage(sc))),
     layer_count |-> 1,
     color_attachments |-> {FrameResources_get_mut(g, sc, id) :
                                id \in DOMAIN p.color_attachments},
     depth_attachment |-> {FrameResources_get_mut(g, sc, id) :
                                id \in p.depth_stencil_attachment}]

\* cmd_begin_rendering(cmd_buffer, &rendering_info)
BeginRendering(pass, rendering_info) ==
    [kind |-> "begin_rendering", image_barriers |-> <<>>, arg |-> pass,
     rendering_info |-> rendering_info]

\* a pass whose rendering scope is left open after its recorder ran
RenderScope_Unclosed(pass, rendering_info) ==
    [cmds |-> <<BeginRendering(pass, rendering_info)>>,
     ops |-> <<Op("cmd_begin_rendering", pass),
               Op("record_commands", pass)>>]

\* the end of an iteration, past every get_mut(..)?: cmd_begin_rendering,
\* the pass's record_commands, cmd_end_rendering
RenderScope(pass, rendering_info) ==
    [cmds |-> <<BeginRendering(pass, rendering_info),
                Cmd("end_rendering", <<>>, pass)>>,
     ops |-> <<Op("cmd_begin_rendering", pass),
               Op("record_commands", pass),
               Op("cmd_end_rendering", pass)>>]

\* one iteration of `for render_pass in &mut self.render_passes`
RenderGraph_render ==
    /\ pc = "render" /\ passIdx <= Len(graph.render_passes)
    /\ LET p == graph.render_passes[passIdx]
           cids == DOMAIN p.color_attachments
           valid == {id \in cids :
                        FrameResources_get_mut(graph, swapchain, id) # NoImage}
       IN
       \* the color attachments are a HashMap: the loop reaches any subset
       \* of the resolvable IDs before it meets an unresolvable one
       \E reached \in SUBSET valid :
        /\ (valid = cids) => (reached = valid)
        /\ LET Img(id) == FrameResources_get_mut(graph, swapchain, id)
               cneed == {id \in reached :
                    TrackedLayout(graph, swapchain, Img(id))
                        # COLOR_ATTACHMENT_OPTIMAL}
               ccmds == SetToSeq({cmd_layout_transition(graph, swapchain,
                                    Img(id), COLOR_ATTACHMENT_OPTIMAL,
                                    DstAccessMask(p.color_attachments[id])) :
                                  id \in cneed})
               cimgs == {Img(id) : id \in cneed}
               sc1 == SwapchainWithLayout(swapchain, cimgs,
                                          COLOR_ATTACHMENT_OPTIMAL)
               g1 == GraphWithLayout(graph, cimgs, COLOR_ATTACHMENT_OPTIMAL)
               dids == p.depth_stencil_attachment
               dbad == \E d \in dids :
                          FrameResources_get_mut(g1, sc1, d) = NoImage
               failed == valid # cids \/ dbad
               dneed == {d \in dids :
                    /\ ~failed
                    /\ TrackedLayout(g1, sc1, FrameResources_get_mut(g1, sc1, d))
                        # DEPTH_STENCIL_ATTACHMENT_OPTIMAL}
               dcmds == SetToSeq({cmd_layout_transition(g1, sc1,
                                    FrameResources_get_mut(g1, sc1, d),
                                    DEPTH_STENCIL_ATTACHMENT_OPTIMAL,
                                    "DEPTH_STENCIL_ATTACHMENT_READ") :
                                  d \in dneed})
               dimgs == {FrameResources_get_mut(g1, sc1, d) : d \in dneed}
           IN
           /\ swapchain' = SwapchainWithLayout(sc1, dimgs,
                                DEPTH_STENCIL_ATTACHMENT_OPTIMAL)
           /\ graph' = GraphWithLayout(g1, dimgs,
                                DEPTH_STENCIL_ATTACHMENT_OPTIMAL)
           /\ recorded' = recorded \o ccmds \o dcmds \o
                    (IF failed THEN <<>>
                     ELSE RenderScope(passIdx,
                                      RenderingInfo(graph, swapchain, p)).cmds)
           /\ ops' = ops \o
                    (IF failed THEN <<>>
                     ELSE RenderScope(passIdx,
                                      RenderingInfo(graph, swapchain, p)).ops)
           /\ OnPassResult(failed)
    /\ UNCHANGED <<registryVars, immediateVars, resourceVars, lastBind, meshVars>>
    /\ UNCHANGED <<acquireState, swapVars, oodHandles, renderBuf, inflight,
                   gpu, submitted, presented, frame, binds>>

\* f returned Ok: swapchain.ensure_presentable(&cmd_buffer); the pipeline
\* barrier command is recorded with whatever image barriers were built
ensure_presentable ==
    /\ pc = "render" /\ passIdx > Len(graph.render_passes)
    /\ LET image_barriers == EnsurePresentableBarriers(swapchain) IN
        /\ recorded' = Append(recorded,
                              Cmd("pipeline_barrier", image_barriers, 0))
        /\ swapchain' = SwapchainWithLayout(swapchain,
                            {b.image : b \in {image_barriers[i] :
                                i \in DOMAIN image_barriers}},
                            PRESENT_SRC_KHR)
    /\ ops' = Append(ops, Op("ensure_presentable",
                             swapchain.current_image_index))
    /\ pc' = "end"
    /\ UNCHANGED <<registryVars, immediateVars, resourceVars, lastBind, meshVars>>
    /\ UNCHANGED <<lastResult, acquireState, swapVars, oodHandles, renderBuf,
                   inflight, gpu, graph, passIdx, submitted, presented, frame,
                   binds>>

\* unsafe { device.end_command_buffer(self.rendering_cmd_buffer) }?
render_command_end ==
    /\ pc = "end"
    /\ \/ /\ renderBuf' = "executable"
          /\ ops' = Append(ops, Op("end_command_buffer", 0))
          /\ pc' = "submit"
          /\ UNCHANGED lastResult
       \/ /\ Return("CommandBufferEnd")
          /\ renderBuf' = "invalid"
          /\ UNCHANGED ops
    /\ UNCHANGED <<registryVars, immediateVars, resourceVars, lastBind, meshVars>>
    /\ UNCHANGED <<acquireState, swapchain, swapVars, oodHandles, recorded,
                   inflight, gpu, graph, passIdx, submitted, presented, frame,
                   binds>>

\* a submission that always signals the semaphore of slot 0
SubmitInfo_FirstSemaphore(sc, cmds) ==
    [command_buffers |-> cmds,
     wait_dst_stage_mask |-> "COLOR_ATTACHMENT_OUTPUT",
     wait_semaphores |-> <<"image_acquired_semaphore", sc.handle, 0>>,
     signal_semaphores |-> <<"render_semaphore", sc.handle, 0>>,
     fence |-> <<"present_fence", sc.handle, 0>>]

\* the vk::SubmitInfo and fence handed to queue_submit
SubmitInfo(sc, cmds) ==
    [command_buffers |-> cmds,
     wait_dst_stage_mask |-> "COLOR_ATTACHMENT_OUTPUT",
     wait_semaphores |-> <<"image_acquired_semaphore", sc.handle, 0>>,
     signal_semaphores |->
        <<"render_semaphore", sc.handle, sc.current_image_index>>,
     fence |-> <<"present_fence", sc.handle, 0>>]

render_command_submit ==
    /\ pc = "submit"
    /\ \/ /\ inflight' = Append(inflight, SubmitInfo(swapchain, recorded))
          /\ submitted' = Append(submitted, SubmitInfo(swapchain, recorded))
          /\ renderBuf' = "pending"
          /\ ops' = Append(ops, Op("queue_submit", 0))
          /\ pc' = "present"
          /\ UNCHANGED lastResult
       \/ /\ Return("Submission")
          /\ UNCHANGED <<inflight, submitted, renderBuf, ops>>
    /\ UNCHANGED <<registryVars, immediateVars, resourceVars, lastBind, meshVars>>
    /\ UNCHANGED <<acquireState, swapchain, swapVars, oodHandles, recorded,
                   gpu, graph, passIdx, presented, frame, binds>>

\* a present that always waits on the render semaphore of slot 0
PresentInfo_FirstSemaphore(sc) ==
    [wait_semaphores |-> <<"render_semaphore", sc.handle, 0>>,
     swapchains |-> sc.handle,
     image_indices |-> sc.current_image_index]

\* the vk::PresentInfoKHR handed to queue_present
PresentInfo(sc) ==
    [wait_semaphores |->
        <<"render_semaphore", sc.handle, sc.current_image_index>>,
     swapchains |-> sc.handle,
     image_indices |-> sc.current_image_index]

\* window.pre_present_notify(); self.swapchain.present()?; Ok(())
present ==
    /\ pc = "present"
    /\ presented' = Append(presented, PresentInfo(swapchain))
    /\ ops' = Append(ops, Op("queue_present", swapchain.current_image_index))
    /\ \/ Return("Ok")
       \/ Return("SwapchainPresent")
    /\ UNCHANGED <<registryVars, immediateVars, resourceVars, lastBind, meshVars>>
    /\ UNCHANGED <<acquireState, swapchain, swapVars, oodHandles, renderBuf,
                   recorded, inflight, gpu, graph, passIdx, submitted, frame,
                   binds>>

\* the GPU finishes the oldest submission: its barriers take effect, its
\* fence is signaled, the one-time-submit buffer leaves the pending state
GpuExecute ==
    /\ inflight # <<>>
    /\ LET sub == Head(inflight) IN
        /\ gpu' = ExecuteCommands(gpu, sub.command_buffers)
        /\ swapchain' =
                IF sub.fence = <<"present_fence", swapchain.handle, 0>>
                THEN [swapchain EXCEPT !.present_fence = "signaled"]
                ELSE swapchain
    /\ inflight' = Tail(inflight)
    /\ renderBuf' = IF renderBuf = "pending" /\ Len(inflight) = 1
                    THEN "invalid" ELSE renderBuf
    /\ UNCHANGED <<registryVars, immediateVars, resourceVars, lastBind, meshVars>>
    /\ UNCHANGED <<pc, lastResult, acquireState, swapVars, oodHandles,
                   recorded, graph, passIdx, ops, submitted, presented,
                   frame, binds>>

\* a bind that forgets to drop the graph it replaces
RenderGraph_drop_Leak(g) == <<>>

\* the drop of a RenderGraph: every image its registry owns is destroyed
\* (impl Drop for Image), once
RenderGraph_drop(g) == SetToSeq(GraphImages(g))

\* a bind that clears the bound graph before it builds the new one
OnBindFailure_Unbound(g) == RenderGraph_empty

\* the bound graph after RenderGraph::new(info, self)? failed: the `?`
\* returns before the assignment to self.render_graph
OnBindFailure(g) == g

\* Context::bind_rendergraph: RenderGraph::new(info, self)? then the
\* assignment, which drops the old graph and its images
Context_bind_rendergraph ==
    /\ pc = "idle"
    /\ binds' = binds + 1
    /\ \/ \E info \in RenderGraphInfos :
            LET new == RenderGraph_new(info, binds + 1, swapchain)
                dropped == RenderGraph_drop(graph) IN
            /\ graph' = new
            /\ destroyed' = destroyed \o dropped
            /\ gpu' = [img \in (DOMAIN gpu \ {dropped[i] : i \in DOMAIN dropped})
                                \cup GraphImages(new) |->
                        IF img \in GraphImages(new) THEN UNDEFINED
                        ELSE gpu[img]]
            /\ lastBind' = [result |-> "Ok", info |-> info,
                            previous |-> GraphImages(graph)]
       \/ /\ lastBind' = [result |-> "Err",
                            previous |-> [gen |-> graph.gen,
                                          render_passes |-> graph.render_passes]]
          /\ graph' = OnBindFailure(graph)
          /\ UNCHANGED <<gpu, destroyed>>
    /\ UNCHANGED <<registryVars, immediateVars, resourceVars, meshVars>>
    /\ UNCHANGED <<pc, lastResult, acquireState, swapchain, newSwapchain,
                   nextHandle, nativeAlive, surfaceExtent, lastSuggested,
                   oodHandles, renderBuf, recorded, inflight, passIdx, ops,
                   submitted, presented, frame>>

bind_rendergraph == binds < MaxBinds /\ Context_bind_rendergraph

(***************************************************************************)
(* Context::new and the specification of the frame loop.                   *)
(***************************************************************************)
\* no registry is being filled and no immediate command runs
RegistryIdle ==
    /\ registry = [infos |-> <<>>,
                   swapchain_color_attachment |-> NilId,
                   swapchain_ds_attachment |-> NilId]
    /\ held = {}
    /\ nextId = 1
    /\ returned = <<>>
    /\ lastAdd = [result |-> "none"]
    /\ clones = {}

ImmediateIdle ==
    /\ immPc = "idle"
    /\ immResult = "none"
    /\ immBuf = "initial"
    /\ immRecorded = <<>>
    /\ immFence = "unsignaled"
    /\ immInflight = <<>>
    /\ srcBuffer = <<>>
    /\ dstBuffer = <<>>
    /\ copySize = 0
    /\ immCalls = 0
    /\ deviceLock = "free"

MeshIdle ==
    upload = [pc |-> "idle", staging |-> "none", result |-> "none",
              calls |-> 0]

ResourcesIdle ==
    /\ natives = {}
    /\ allocations = <<>>
    /\ allocatorLock = "free"
    /\ resPc = "idle"
    /\ todo = <<>>
    /\ made = {}
    /\ heldImages = {}
    /\ heldBuffers = {}
    /\ nextNative = 1
    /\ lastBuild = [result |-> "none"]
    /\ lastCreate = [result |-> "none"]
    /\ lastUpload = [result |-> "none"]
    /\ lastDrop = <<>>

ContextNew ==
    /\ surfaceExtent \in Extents \cup {SpecialExtent}
    /\ swapchain = Swapchain_new(1, InitialSuggestedSize)
    /\ gpu = [img \in SwapchainImages(Swapchain_new(1, InitialSuggestedSize))
                |-> UNDEFINED]
    /\ newSwapchain = NoSwapchain
    /\ nextHandle = 2
    /\ nativeAlive = {1}
    /\ lastSuggested = InitialSuggestedSize
    /\ destroyed = <<>>
    /\ oodHandles = {}
    /\ graph = RenderGraph_empty
    /\ renderBuf = "initial"
    /\ recorded = <<>>
    /\ inflight = <<>>
    /\ pc = "idle"
    /\ lastResult = "none"
    /\ acquireState = "none"
    /\ passIdx = 1
    /\ ops = <<>>
    /\ submitted = <<>>
    /\ presented = <<>>
    /\ frame = 0
    /\ binds = 0
    /\ lastBind = [result |-> "none"]

Init ==
    ContextNew /\ RegistryIdle /\ ImmediateIdle /\ ResourcesIdle /\ MeshIdle

Next ==
    \/ render_frame_wait
    \/ next_image
    \/ render_frame_recreate
    \/ render_frame_assign
    \/ render_command_begin
    \/ RenderGraph_render
    \/ ensure_presentable
    \/ render_command_end
    \/ render_command_submit
    \/ present
    \/ GpuExecute
    \/ bind_rendergraph

Spec == Init /\ [][Next]_vars

(***************************************************************************)
(* Properties of the frame loop.                                           *)
(***************************************************************************)
OpNames(names) == SelectSeq(ops, LAMBDA o : o[1] \in names)

\* the native objects Swapchain::new creates for the swapchain with handle h
SwapchainObjects(h) ==
    {<<"present_fence", h, 0>>, <<"image_acquired_semaphore", h, 0>>,
     <<"swapchain", h, 0>>}
    \cup {<<k, h, s>> : k \in {"render_semaphore", "image_view", "depth_image"},
                        s \in Slots}

TimesDestroyed(obj) == Cardinality({i \in DOMAIN destroyed : destroyed[i] = obj})

\* every attachment ID of pass p resolves in this frame
Resolvable(p) ==
    \A id \in DOMAIN p.color_attachments \cup p.depth_stencil_attachment :
        FrameResources_get_mut(graph, swapchain, id) # NoImage

PerFrameFatal ==
    {"ImageAcquisition", "InvalidResource", "Reset", "Begin",
     "CommandBufferEnd", "Submission", "SwapchainPresent"}

\* the present fence is signaled or a pending submission will signal it
FenceWillSignal ==
    \/ swapchain.present_fence = "signaled"
    \/ \E i \in DOMAIN inflight :
            inflight[i].fence = <<"present_fence", swapchain.handle, 0>>

\* C1: in every frame the wait on and the reset of the current swapchain's
\* present fence come first, and while the render command buffer is being
\* reset, recorded or submitted no earlier submission of it is pending on
\* the GPU; at most one submission is ever pending.
C1_NoReuseWhilePending ==
    /\ pc \in {"render_command", "render", "end", "submit"} =>
        /\ inflight = <<>>
        /\ ops[1] = Op("wait_for_fences", swapchain.handle)
        /\ ops[2] = Op("reset_fences", swapchain.handle)
    /\ Len(inflight) <= 1

\* a frame on a recreated swapchain is about to reset the buffer that an
\* earlier frame submitted and the GPU has finished with
C1_Witness ==
    /\ pc = "render_command" /\ renderBuf = "invalid"
    /\ swapchain.handle > 1 /\ frame >= 3

\* C2: after render_frame returned a per-frame fatal error, the next call
\* does not wait forever: the present fence is signaled or a submission
\* already made will signal it.
C2_RetryDoesNotBlock ==
    (pc = "idle" /\ lastResult \in PerFrameFatal) => FenceWillSignal

\* C3 as stated: an OutOfDate frame records, submits and presents nothing,
\* rebuilds the swapchain from the previous extent, returns Ok, and the next
\* call does not block on the new fence.
C3_OutOfDateReturnsOk ==
    /\ acquireState = "OutOfDate" =>
        /\ OpNames({"f", "record_commands", "queue_submit", "queue_present"}) = <<>>
        /\ submitted = <<>> /\ presented = <<>>
    /\ pc = "swapchain_assign" => lastSuggested = swapchain.extent
    /\ (pc = "idle" /\ acquireState = "OutOfDate") =>
        /\ lastResult = "Ok"
        /\ swapchain.handle \notin oodHandles
        /\ swapchain.present_fence = "signaled"

\* C3 amended: as above when Swapchain::new succeeds; when it fails,
\* render_frame returns the SwapchainCreation error and keeps the old
\* swapchain.
C3_OutOfDateRebuilds ==
    /\ acquireState = "OutOfDate" =>
        /\ OpNames({"f", "record_commands", "queue_submit", "queue_present"}) = <<>>
        /\ submitted = <<>> /\ presented = <<>>
    /\ pc = "swapchain_assign" => lastSuggested = swapchain.extent
    /\ (pc = "idle" /\ acquireState = "OutOfDate") =>
        \/ /\ lastResult = "Ok"
           /\ swapchain.handle \notin oodHandles
           /\ swapchain.present_fence = "signaled"
        \/ /\ lastResult = "SwapchainCreation"
           /\ swapchain.handle \in oodHandles

C3_Witness ==
    /\ pc = "idle" /\ acquireState = "OutOfDate" /\ lastResult = "Ok"
    /\ swapchain.handle > 1 /\ swapchain.extent = "800x600"

\* C4: no successful acquire happens on a swapchain that reported
\* OutOfDate, the rebuilt swapchain has another handle, and every native
\* object of a replaced swapchain is destroyed exactly once.
C4_RebuildBeforeAcquire ==
    /\ pc = "render_command" => swapchain.handle \notin oodHandles
    /\ pc = "swapchain_assign" => newSwapchain.handle # swapchain.handle
    /\ \A h \in 1 .. (nextHandle - 1) :
        \A obj \in SwapchainObjects(h) :
            TimesDestroyed(obj) =
                IF h \in {swapchain.handle, newSwapchain.handle} THEN 0 ELSE 1

C4_Witness ==
    /\ pc = "render_command" /\ oodHandles # {}
    /\ \A obj \in SwapchainObjects(1) : TimesDestroyed(obj) = 1

\* C5: when a pass declares an ID that resolves nowhere, its recorder and
\* those of the later passes are not invoked, render_frame returns
\* InvalidResource, and nothing is submitted or presented in that frame.
C5_InvalidResourceAborts ==
    /\ \A i \in DOMAIN graph.render_passes :
        (pc # "idle" /\ ~Resolvable(graph.render_passes[i])) =>
            /\ pc \notin {"end", "submit", "present"}
            /\ pc = "render" => passIdx <= i
            /\ submitted = <<>> /\ presented = <<>>
            /\ \A k \in DOMAIN OpNames({"record_commands"}) :
                    OpNames({"record_commands"})[k][2] < i
    /\ (pc = "idle" /\ lastResult = "InvalidResource") =>
        /\ submitted = <<>> /\ presented = <<>>
        /\ OpNames({"queue_submit", "queue_present"}) = <<>>
        /\ \A k \in DOMAIN OpNames({"record_commands"}) :
                OpNames({"record_commands"})[k][2] < passIdx

\* the second pass failed to resolve after the first one was recorded
C5_Witness ==
    /\ pc = "idle" /\ lastResult = "InvalidResource" /\ passIdx = 2
    /\ OpNames({"record_commands"}) = <<Op("record_commands", 1)>>

\* C6: once all submitted work has executed, the tracked layout of every
\* image equals the layout it has on the GPU.
C6_TrackedLayoutIsReal ==
    (pc = "idle" /\ inflight = <<>>) =>
        \A img \in DOMAIN gpu : gpu[img] = TrackedLayout(graph, swapchain, img)

RenderCommandOps ==
    {"reset_command_buffer", "begin_command_buffer(ONE_TIME_SUBMIT)", "f",
     "ensure_presentable", "end_command_buffer", "queue_submit"}

\* C7: a render_command that returned Ok made exactly these calls in this
\* order, with one submission that waits on the acquire semaphore at the
\* color-attachment-output stage and signals the current slot's semaphore
\* and the present fence; when f fails, nothing after f is performed.
C7_RenderCommandOrder ==
    /\ pc = "present" =>
        /\ OpNames(RenderCommandOps) =
            <<Op("reset_command_buffer", 0),
              Op("begin_command_buffer(ONE_TIME_SUBMIT)", 0),
              Op("f", swapchain.current_image_index),
              Op("ensure_presentable", swapchain.current_image_index),
              Op("end_command_buffer", 0),
              Op("queue_submit", 0)>>
        /\ Len(submitted) = 1
        /\ submitted[1].wait_semaphores =
                <<"image_acquired_semaphore", swapchain.handle, 0>>
        /\ submitted[1].wait_dst_stage_mask = "COLOR_ATTACHMENT_OUTPUT"
        /\ submitted[1].signal_semaphores =
                <<"render_semaphore", swapchain.handle,
                  swapchain.current_image_index>>
        /\ submitted[1].fence = <<"present_fence", swapchain.handle, 0>>
        /\ submitted[1].command_buffers = recorded
    /\ (pc = "idle" /\ lastResult = "InvalidResource") =>
        OpNames({"ensure_presentable", "end_command_buffer", "queue_submit"}) = <<>>

C7_Witness ==
    /\ pc = "present" /\ swapchain.current_image_index = 1
    /\ OpNames({"record_commands"}) # <<>>

\* the calls RenderGraph::render makes for a pass whose attachments resolve
PassOps == {"cmd_begin_rendering", "record_commands", "cmd_end_rendering"}

\* the errors of the device calls render_frame makes after the acquire
DeviceCallErrors ==
    {"Reset", "Begin", "CommandBufferEnd", "Submission", "SwapchainPresent"}

\* the frame that has just returned acquired an image
FrameDoneAcquired ==
    pc = "idle" /\ frame > 0 /\ acquireState \in {"Ok", "Suboptimal"}

\* C21 as stated: with no graph bound the Context holds the empty graph,
\* and a frame with a successful acquire returns Ok, opens no rendering
\* scope, invokes no recorder, leaves the image present-ready, submits and
\* presents.
C21_EmptyGraphFrameOk ==
    binds = 0 =>
        /\ graph = RenderGraph_empty
        /\ FrameDoneAcquired =>
            /\ lastResult = "Ok"
            /\ OpNames(PassOps) = <<>>
            /\ swapchain.layout[swapchain.current_image_index] = PRESENT_SRC_KHR
            /\ Len(submitted) = 1 /\ Len(presented) = 1

\* C21: with no graph bound the Context holds the empty graph; a frame on
\* it never returns InvalidResource, opens no rendering scope and invokes
\* no recorder; with a successful acquire it returns Ok or the error of a
\* failed device call, and when it reached present it recorded only the
\* barrier of ensure_presentable, left the acquired image present-ready,
\* and submitted and presented once.
C21_EmptyGraphFrameValid ==
    binds = 0 =>
        /\ graph = RenderGraph_empty
        /\ lastResult # "InvalidResource"
        /\ OpNames(PassOps) = <<>>
        /\ FrameDoneAcquired =>
            /\ lastResult \in {"Ok"} \cup DeviceCallErrors
            /\ lastResult \in {"Ok", "SwapchainPresent"} =>
                /\ swapchain.layout[swapchain.current_image_index]
                        = PRESENT_SRC_KHR
                /\ Len(recorded) = 1
                /\ recorded[1].kind = "pipeline_barrier"
                /\ Len(submitted) = 1 /\ Len(presented) = 1
                /\ submitted[1].command_buffers = recorded
                /\ presented[1].image_indices = swapchain.current_image_index

\* the second frame on the empty graph has been presented
C21_Witness ==
    /\ binds = 0 /\ FrameDoneAcquired /\ lastResult = "Ok"
    /\ frame >= 2 /\ Len(presented) = 1

\* the begins and ends of rendering scopes among the recorded commands
ScopeCmds ==
    SelectSeq(recorded,
              LAMBDA c : c.kind \in {"begin_rendering", "end_rendering"})

\* what a frame does for passes 1..n, in order
RECURSIVE ScopesInOrder(_)
ScopesInOrder(n) ==
    IF n = 0 THEN <<>>
    ELSE ScopesInOrder(n - 1) \o <<Op("cmd_begin_rendering", n),
                                   Op("record_commands", n),
                                   Op("cmd_end_rendering", n)>>

\* RenderGraph::render has returned Ok and the frame goes on
RenderReturnedOk == pc \in {"end", "submit", "present"}

\* C25: once render has returned Ok the passes were processed in pushed
\* order, each recorder invoked once between the begin and the end of its
\* own rendering scope; no scope is ever opened inside another, and none is
\* open between two passes or when render has returned, with Ok or with
\* InvalidResource.
C25_PassesInOrder ==
    /\ RenderReturnedOk =>
            OpNames(PassOps) = ScopesInOrder(Len(graph.render_passes))
    /\ \A k \in DOMAIN ScopeCmds :
            ScopeCmds[k].kind = IF k % 2 = 1 THEN "begin_rendering"
                                ELSE "end_rendering"
    /\ Len(ScopeCmds) % 2 = 0
    /\ OpNames(PassOps) =
            ScopesInOrder(Len(OpNames({"record_commands"})))

\* a frame on a graph of two passes has rendered both, and a frame has
\* returned InvalidResource after a first pass
C25_Witness ==
    /\ RenderReturnedOk /\ Len(graph.render_passes) = 2
    /\ Len(ScopeCmds) = 4

C25_WitnessInvalid ==
    /\ pc = "idle" /\ lastResult = "InvalidResource"
    /\ OpNames(PassOps) = ScopesInOrder(1)

\* the image barriers in cmds that move img to the layout new
BarriersTo(cmds, img, new) ==
    {<<k, i>> \in (DOMAIN cmds) \X (1..2) :
        /\ i \in DOMAIN cmds[k].image_barriers
        /\ cmds[k].image_barriers[i].image = img
        /\ cmds[k].image_barriers[i].new_layout = new}

\* the images the image barriers of cmds name
BarrierImages(cmds) ==
    UNION {{cmds[k].image_barriers[i].image :
                i \in DOMAIN cmds[k].image_barriers} : k \in DOMAIN cmds}

\* one iteration of render over pass p, from the commands before it to the
\* commands new it recorded
PassBarriersAsTracked(p, new) ==
    LET Img(id) == FrameResources_get_mut(graph, swapchain, id)
        cimgs == {Img(id) : id \in DOMAIN p.color_attachments} \ {NoImage}
        dimgs == {Img(id) : id \in p.depth_stencil_attachment} \ {NoImage}
        Emitted(img, layout) == Cardinality(BarriersTo(new, img, layout))
        completed == pc' = "render"
    IN
    /\ BarrierImages(new) \subseteq cimgs \cup dimgs
    /\ \A img \in cimgs :
        LET differs == TrackedLayout(graph, swapchain, img)
                            # COLOR_ATTACHMENT_OPTIMAL
            n == Emitted(img, COLOR_ATTACHMENT_OPTIMAL)
        IN  /\ n = IF differs /\ (completed \/ n > 0) THEN 1 ELSE 0
            /\ (completed \/ n > 0) =>
                    TrackedLayout(graph', swapchain', img)
                        = COLOR_ATTACHMENT_OPTIMAL
            /\ n > 0 => BarriersTo(recorded, img,
                                    COLOR_ATTACHMENT_OPTIMAL) = {}
    /\ \A img \in dimgs :
        LET differs == TrackedLayout(graph, swapchain, img)
                            # DEPTH_STENCIL_ATTACHMENT_OPTIMAL
            n == Emitted(img, DEPTH_STENCIL_ATTACHMENT_OPTIMAL)
        IN  /\ n = IF differs /\ completed THEN 1 ELSE 0
            /\ completed =>
                    TrackedLayout(graph', swapchain', img)
                        = DEPTH_STENCIL_ATTACHMENT_OPTIMAL
            /\ n > 0 => BarriersTo(recorded, img,
                                    DEPTH_STENCIL_ATTACHMENT_OPTIMAL) = {}
    /\ \A id \in graph.attachments :
            AttachmentImage(graph, id) \in BarrierImages(new) =>
                graph.layout[id] = UNDEFINED

\* C26: an iteration of render emits, for each declared color attachment
\* it reaches, one barrier to COLOR_ATTACHMENT_OPTIMAL exactly when the
\* tracked layout differs, and leaves the tracked layout updated; likewise
\* one barrier for the declared depth attachment exactly when its tracked
\* layout is not DEPTH_STENCIL_ATTACHMENT_OPTIMAL; it emits no other
\* barrier.  No attachment gets a second such barrier in the same frame,
\* and a graph-owned attachment gets one only while its tracked layout is
\* the initial one, which it never returns to.
C26_BarriersAsTracked ==
    [][/\ (pc = "render" /\ passIdx <= Len(graph.render_passes)) =>
            PassBarriersAsTracked(
                graph.render_passes[passIdx],
                SubSeq(recorded', Len(recorded) + 1, Len(recorded')))
       /\ graph'.gen = graph.gen =>
            \A id \in graph.attachments :
                graph.layout[id] # UNDEFINED =>
                    graph'.layout[id] = graph.layout[id]]_vars

\* the second frame on a graph whose two passes share the graph-owned
\* attachment: the swapchain image was transitioned, the attachment not
C26_Witness ==
    /\ frame = 2 /\ pc = "end" /\ Len(graph.render_passes) = 2
    /\ \A id \in graph.attachments :
        /\ id \in DOMAIN graph.render_passes[1].color_attachments
        /\ id \in DOMAIN graph.render_passes[2].color_attachments
        /\ BarriersTo(recorded, AttachmentImage(graph, id),
                      COLOR_ATTACHMENT_OPTIMAL) = {}
    /\ graph.attachments # {}
    /\ BarriersTo(recorded, ColorImage(swapchain),
                  COLOR_ATTACHMENT_OPTIMAL) # {}

\* C27: when render_frame calls present, the presented image is the one
\* this call acquired, of the swapchain it was acquired from, its tracked
\* layout is PRESENT_SRC_KHR, the frame made exactly one submission, and
\* the present waits on the render semaphore that submission signals, the
\* one of the acquired slot.
C27_PresentsWhatWasRendered ==
    \A info \in (IF pc = "present" THEN {PresentInfo(swapchain)} ELSE {})
                    \cup {presented[i] : i \in DOMAIN presented} :
        /\ Len(presented) <= 1
        /\ acquireState \in {"Ok", "Suboptimal"}
        /\ OpNames({"acquire_next_image"}) =
                <<Op("acquire_next_image", info.image_indices)>>
        /\ info.swapchains = swapchain.handle
        /\ OpNames({"Swapchain::new", "drop(Swapchain)"}) = <<>>
        /\ swapchain.layout[info.image_indices] = PRESENT_SRC_KHR
        /\ Len(submitted) = 1
        /\ info.wait_semaphores = submitted[1].signal_semaphores
        /\ info.wait_semaphores =
                <<"render_semaphore", swapchain.handle, info.image_indices>>

\* the image of slot 1 was presented after a pass was rendered to it
C27_Witness ==
    /\ Len(presented) = 1 /\ presented[1].image_indices = 1
    /\ OpNames({"record_commands"}) # <<>>

\* C29: the render area of every rendering scope of the frame in progress
\* lies within the 2D extent of each color and depth attachment the scope
\* binds.
C29_RenderAreaWithinAttachments ==
    pc # "idle" =>
        \A k \in DOMAIN recorded :
            recorded[k].kind = "begin_rendering" =>
                \A img \in recorded[k].rendering_info.color_attachments
                        \cup recorded[k].rendering_info.depth_attachment :
                    FitsIn(recorded[k].rendering_info.render_area,
                           Extent2D_of(ImageExtent(graph, swapchain, img)))

\* C33: at most one native swapchain exists for the surface at any time,
\* and the replacement of an OutOfDate swapchain is created only once the
\* old one has been torn down.
C33_OneNativeSwapchain ==
    /\ Cardinality(nativeAlive) <= 1
    /\ pc = "swapchain_assign" => swapchain.handle \notin nativeAlive

\* the steps of render_frame that index a slot with current_image_index
IndexingSteps == {"render_command", "render", "end", "submit", "present"}

\* C35: the swapchain has a depth image and a render semaphore for every
\* color image; while render_frame is at a step that indexes a slot, and
\* in every submission and present it made, the index is the one this
\* frame's successful acquire stored on the current swapchain and is below
\* the slot count; the sentinel is never used.
C35_IndexFromAcquire ==
    /\ DOMAIN swapchain.layout = Slots
    /\ DOMAIN swapchain.depth_layout = DOMAIN swapchain.layout
    /\ \A s \in DOMAIN swapchain.layout :
            <<"render_semaphore", swapchain.handle, s>>
                \in SwapchainObjects(swapchain.handle)
    /\ pc \in IndexingSteps =>
        /\ swapchain.current_image_index \in Slots
        /\ swapchain.current_image_index # U32_MAX
        /\ acquireState \in {"Ok", "Suboptimal"}
        /\ OpNames({"acquire_next_image"}) =
                <<Op("acquire_next_image", swapchain.current_image_index)>>
        /\ OpNames({"Swapchain::new", "drop(Swapchain)"}) = <<>>
    /\ \A i \in DOMAIN ops :
            ops[i][1] \in {"f", "ensure_presentable", "queue_present"} =>
                ops[i][2] \in Slots
    /\ \A i \in DOMAIN submitted :
            submitted[i].signal_semaphores[3] \in Slots
    /\ \A i \in DOMAIN presented : presented[i].image_indices \in Slots

\* a frame on a rebuilt swapchain, whose index was the sentinel, has
\* acquired slot 1 and reached present
C35_Witness ==
    /\ pc = "present" /\ swapchain.handle > 1
    /\ swapchain.current_image_index = 1

\* C37: the swapchain color ID of the bound graph's registry differs from
\* its depth/stencil ID, and the depth/stencil ID resolves to this frame's
\* depth image.
C37_SwapchainIdsDiffer ==
    /\ graph.swapchain_color_attachment # graph.swapchain_ds_attachment
    /\ get_image_state(graph, swapchain, graph.swapchain_ds_attachment)
            = DepthImage(swapchain)

\* C23: a frame whose acquire returned Suboptimal goes on as one whose
\* acquire returned Ok: the acquired index is recorded, the swapchain is
\* neither rebuilt nor dropped, every pass of the graph is rendered before
\* the one submission, and the frame is presented once.
C23_SuboptimalProceeds ==
    acquireState = "Suboptimal" =>
        /\ pc \notin {"next_image", "swapchain_new", "swapchain_assign"}
        /\ OpNames({"Swapchain::new", "drop(Swapchain)"}) = <<>>
        /\ OpNames({"acquire_next_image"}) =
                <<Op("acquire_next_image", swapchain.current_image_index)>>
        /\ swapchain.current_image_index \in Slots
        /\ pc = "present" =>
            /\ OpNames({"record_commands"}) =
                    [i \in 1..Len(graph.render_passes) |->
                        Op("record_commands", i)]
            /\ Len(submitted) = 1 /\ presented = <<>>
        /\ pc = "idle" =>
            /\ lastResult \in {"Ok", "InvalidResource"} \cup DeviceCallErrors
            /\ lastResult \in {"Ok", "SwapchainPresent"} =>
                /\ Len(submitted) = 1
                /\ presented = <<PresentInfo(swapchain)>>

\* a Suboptimal frame that rendered a pass has been presented
C23_Witness ==
    /\ acquireState = "Suboptimal" /\ pc = "idle" /\ lastResult = "Ok"
    /\ OpNames({"record_commands"}) # <<>> /\ Len(presented) = 1

\* a host that binds one graph after another, rendering in between
rebind_rendergraph == binds < MaxRebinds /\ Context_bind_rendergraph

render_frame_once == frame < MaxBindFrames /\ render_frame_wait

NextBind ==
    \/ rebind_rendergraph
    \/ render_frame_once
    \/ next_image
    \/ render_frame_recreate
    \/ render_frame_assign
    \/ render_command_begin
    \/ RenderGraph_render
    \/ ensure_presentable
    \/ render_command_end
    \/ render_command_submit
    \/ present
    \/ GpuExecute

SpecBind == Init /\ [][NextBind]_vars

\* the graph-owned images alive on the device
AliveGraphImages == {img \in DOMAIN gpu : img[1] = "att"}

\* the images the commands cmds name: in an image barrier or as an
\* attachment of a rendering scope
ReferencedImages(cmds) ==
    BarrierImages(cmds) \cup
    UNION {cmds[k].rendering_info.color_attachments
                \cup cmds[k].rendering_info.depth_attachment :
           k \in {j \in DOMAIN cmds : cmds[j].kind = "begin_rendering"}}

\* C30: no destroyed graph-owned image is referenced by a submission that
\* the GPU has not finished, whose present fence is not yet signaled.
C30_NoImageDestroyedInFlight ==
    \A d \in DOMAIN destroyed : \A i \in DOMAIN inflight :
        destroyed[d][1] = "att" =>
            destroyed[d] \notin ReferencedImages(inflight[i].command_buffers)

\* C36: after a bind_rendergraph that failed the graph bound before it is
\* still bound, with its passes; none of its images has been destroyed and
\* all of them are alive; a frame rendered then records the passes of that
\* graph.
C36_FailedBindKeepsGraph ==
    lastBind.result = "Err" =>
        /\ graph.gen = lastBind.previous.gen
        /\ graph.render_passes = lastBind.previous.render_passes
        /\ \A img \in GraphImages(graph) :
                img \in DOMAIN gpu /\ TimesDestroyed(img) = 0
        /\ pc \in {"end", "submit", "present"} =>
                OpNames({"record_commands"}) =
                    [i \in 1..Len(lastBind.previous.render_passes) |->
                        Op("record_commands", i)]

\* a frame after a failed bind over a graph with passes reached present
C36_Witness ==
    /\ lastBind.result = "Err" /\ lastBind.previous.render_passes # <<>>
    /\ pc = "present" /\ OpNames({"record_commands"}) # <<>>
    /\ GraphImages(graph) # {}

C18_EnsurePresentableIdempotent ==
    [][(pc = "render" /\ pc' = "end") =>
        LET i == swapchain.current_image_index IN
        /\ swapchain'.layout[i] = PRESENT_SRC_KHR
        /\ swapchain.layout[i] = PRESENT_SRC_KHR => recorded' = recorded
        /\ swapchain.layout[i] # PRESENT_SRC_KHR =>
            /\ Len(recorded') = Len(recorded) + 1
            /\ SubSeq(recorded', 1, Len(recorded)) = recorded
            /\ recorded'[Len(recorded')].image_barriers =
                    <<Barrier(ColorImage(swapchain), swapchain.layout[i],
                              PRESENT_SRC_KHR, "NONE")>>]_vars

\* the place of each kind of object in the teardown of a swapchain
TeardownOrder ==
    <<"present_fence", "render_semaphore", "image_acquired_semaphore",
      "image_view", "swapchain", "depth_image">>

TeardownRank(kind) ==
    CHOOSE r \in DOMAIN TeardownOrder : TeardownOrder[r] = kind

\* C19: a swapchain is torn down only once the device is idle, and its
\* objects are destroyed in the order present fence, render semaphores,
\* acquire semaphore, image views, native swapchain, the depth images
\* following when the fields are dropped; each object exactly once.
C19_TeardownOrder ==
    [][swapchain'.handle # swapchain.handle =>
        LET gone == SubSeq(destroyed', Len(destroyed) + 1, Len(destroyed')) IN
        /\ inflight = <<>>
        /\ SubSeq(destroyed', 1, Len(destroyed)) = destroyed
        /\ {gone[i] : i \in DOMAIN gone} = SwapchainObjects(swapchain.handle)
        /\ Len(gone) = Cardinality(SwapchainObjects(swapchain.handle))
        /\ \A i, j \in DOMAIN gone :
                i < j => TeardownRank(gone[i][1]) <= TeardownRank(gone[j][1])]_vars

\* a swapchain that had a submission made on it has been torn down
C19_Witness ==
    /\ <<"swapchain", 1, 0>> \in {destroyed[i] : i \in DOMAIN destroyed}
    /\ swapchain.handle # 1 /\ frame >= 2

(***************************************************************************)
(* ResourceInfoRegistry and ImageAttachmentInfo                            *)
(* (gfx/render_graph/resource.rs).                                         *)
(***************************************************************************)
Names == {"albedo", "normal"}

\* ResourceID::new_v4(): a random 122-bit value, taken as never nil and
\* never equal to a value generated before
new_v4 == nextId

\* impl Default for ImageAttachmentInfo, then .name(name)
ImageAttachmentInfo_new(name, id) ==
    [id |-> id,
     name |-> name,
     size |-> SwapchainBased,
     format |-> "UNDEFINED",
     usage |-> "COLOR_ATTACHMENT",
     layer_count |-> 1]

\* a Clone that copies every field, as #[derive(Clone)] would
ImageAttachmentInfo_clone_Derived(info, id) == info

\* impl Clone for ImageAttachmentInfo: a new ID, the other fields copied
ImageAttachmentInfo_clone(info, id) == [info EXCEPT !.id = id]

\* ResourceInfoRegistry::new() and the derived Default
ResourceInfoRegistry_new(color, ds) ==
    [infos |-> <<>>,
     swapchain_color_attachment |-> color,
     swapchain_ds_attachment |-> ds]

ResourceInfoRegistry_default ==
    [infos |-> <<>>,
     swapchain_color_attachment |-> NilId,
     swapchain_ds_attachment |-> NilId]

\* HashMap::insert: the map afterwards, and the value it held under k
HashMap_insert(m, k, v) ==
    [x \in DOMAIN m \cup {k} |-> IF x = k THEN v ELSE m[x]]

HashMap_previous(m, k) == IF k \in DOMAIN m THEN <<m[k]>> ELSE <<>>

\* ResourceInfoRegistry::add_image_attachment(info)
add_image_attachment(info) ==
    LET id == info.id
        previous == HashMap_previous(registry.infos, id)
    IN
    /\ Len(returned) < MaxAdds
    /\ registry' = [registry EXCEPT !.infos = HashMap_insert(@, id, info)]
    /\ IF previous # <<>>
       THEN /\ lastAdd' = [result |-> "AlreadyPresent", info |-> info,
                           before |-> registry.infos]
            /\ UNCHANGED returned
       ELSE /\ lastAdd' = [result |-> "Ok", info |-> info,
                           before |-> registry.infos]
            /\ returned' = Append(returned, id)

\* the host builds a description
NewInfo ==
    /\ nextId <= MaxIds
    /\ \E name \in Names :
        held' = held \cup {ImageAttachmentInfo_new(name, new_v4)}
    /\ nextId' = nextId + 1
    /\ UNCHANGED <<registry, returned, lastAdd, clones>>
    /\ UNCHANGED <<frameVars, immediateVars, resourceVars, meshVars>>

\* the host clones a description it holds
CloneInfo ==
    /\ nextId <= MaxIds
    /\ \E info \in held :
        LET copy == ImageAttachmentInfo_clone(info, new_v4) IN
        /\ held' = held \cup {copy}
        /\ clones' = clones \cup {<<info.id, copy.id>>}
    /\ nextId' = nextId + 1
    /\ UNCHANGED <<registry, returned, lastAdd>>
    /\ UNCHANGED <<frameVars, immediateVars, resourceVars, meshVars>>

\* the host moves a description it holds into the registry
AddHeldInfo ==
    /\ \E info \in held :
        /\ add_image_attachment(info)
        /\ held' = held \ {info}
    /\ UNCHANGED <<nextId, clones>>
    /\ UNCHANGED <<frameVars, immediateVars, resourceVars, meshVars>>

\* code of the crate (the id field is pub(crate)) adds a description built
\* with an ID that was already issued
AddReusedId ==
    /\ \E id \in DOMAIN registry.infos, name \in Names :
        add_image_attachment(ImageAttachmentInfo_new(name, id))
    /\ UNCHANGED <<held, nextId, clones>>
    /\ UNCHANGED <<frameVars, immediateVars, resourceVars, meshVars>>

\* the derived Clone of ResourceInfoRegistry: HashMap::clone copies each
\* key and clones each description with ImageAttachmentInfo::clone, which
\* draws a new ID; the two swapchain IDs are copied.  The k-th key in
\* ascending order gets the ID first + k - 1.
ResourceInfoRegistry_clone(reg, first) ==
    [reg EXCEPT !.infos =
        [k \in DOMAIN reg.infos |->
            ImageAttachmentInfo_clone(reg.infos[k],
                first + Cardinality({x \in DOMAIN reg.infos : x < k}))]]

\* the host clones its registry and goes on with the clone, on which no
\* add was called yet
CloneRegistry ==
    /\ nextId + Cardinality(DOMAIN registry.infos) - 1 <= MaxIds
    /\ registry' = ResourceInfoRegistry_clone(registry, new_v4)
    /\ clones' = clones \cup
            {<<registry.infos[k].id, registry'.infos[k].id>> :
                k \in DOMAIN registry.infos}
    /\ nextId' = nextId + Cardinality(DOMAIN registry.infos)
    /\ lastAdd' = [result |-> "none"]
    /\ UNCHANGED <<held, returned>>
    /\ UNCHANGED <<frameVars, immediateVars, resourceVars, meshVars>>

\* the attachments of ResourceInfoRegistry::create_resources when every
\* image builds: each (id, info) of the map becomes (id, attachment), and
\* ImageAttachment::from_info keeps the description in the attachment
create_resources_attachments(reg) ==
    [id \in DOMAIN reg.infos |-> [info |-> reg.infos[id]]]

\* the frame loop at rest, as Context::new leaves it
ContextIdle ==
    /\ surfaceExtent = SpecialExtent
    /\ swapchain = NoSwapchain
    /\ gpu = <<>>
    /\ newSwapchain = NoSwapchain
    /\ nextHandle = 1
    /\ nativeAlive = {}
    /\ lastSuggested = InitialSuggestedSize
    /\ destroyed = <<>>
    /\ oodHandles = {}
    /\ graph = RenderGraph_empty
    /\ renderBuf = "initial"
    /\ recorded = <<>>
    /\ inflight = <<>>
    /\ pc = "idle"
    /\ lastResult = "none"
    /\ acquireState = "none"
    /\ passIdx = 1
    /\ ops = <<>>
    /\ submitted = <<>>
    /\ presented = <<>>
    /\ frame = 0
    /\ binds = 0
    /\ lastBind = [result |-> "none"]

\* the host starts from ResourceInfoRegistry::new() or ::default()
InitRegistry ==
    /\ ContextIdle /\ ImmediateIdle /\ ResourcesIdle /\ MeshIdle
    /\ \/ /\ registry = ResourceInfoRegistry_new(1, 2)
          /\ nextId = 3
       \/ /\ registry = ResourceInfoRegistry_default
          /\ nextId = 1
    /\ held = {}
    /\ returned = <<>>
    /\ lastAdd = [result |-> "none"]
    /\ clones = {}

NextRegistry ==
    NewInfo \/ CloneInfo \/ AddHeldInfo \/ AddReusedId \/ CloneRegistry

SpecRegistry == InitRegistry /\ [][NextRegistry]_vars

\* C9: an add_image_attachment that fails with AlreadyPresent leaves the
\* registry as it was: same IDs, same description under each ID.
C9_DuplicateLeavesRegistry ==
    lastAdd.result = "AlreadyPresent" => registry.infos = lastAdd.before

\* C10: the IDs returned by successful adds are pairwise distinct and
\* differ from both swapchain IDs of the registry, and no clone carries the
\* ID of its original.
C10_ReturnedIdsUnique ==
    /\ \A i, j \in DOMAIN returned : returned[i] = returned[j] => i = j
    /\ \A i \in DOMAIN returned :
        returned[i] \notin {registry.swapchain_color_attachment,
                            registry.swapchain_ds_attachment}
    /\ \A c \in clones : c[1] # c[2]

\* an original and its clone were both added and got different IDs
C10_Witness ==
    \E c \in clones :
        \E i, j \in DOMAIN returned : returned[i] = c[1] /\ returned[j] = c[2]

\* C38: in every registry, after any adds (successful or rejected) and
\* registry clones, each key of infos equals the ID of the description
\* stored under it, and create_resources registers each attachment under
\* the ID of the description the attachment keeps.
C38_KeysAreIds ==
    /\ \A k \in DOMAIN registry.infos : registry.infos[k].id = k
    /\ \A k \in DOMAIN create_resources_attachments(registry) :
            create_resources_attachments(registry)[k].info.id = k

(***************************************************************************)
(* CommandManager::immediate_command (gfx/commands.rs) with the closure of *)
(* Mesh::upload_vertex_buffer (gfx/mesh.rs): a copy from a staging buffer. *)
(***************************************************************************)
Bytes == {1, 2}

Zeroed == [i \in 1..BufLen |-> 0]

ImmReturn(r) == immPc' = "idle" /\ immResult' = r

\* cmd_copy_buffer with one BufferCopy region of `size` bytes at offset 0
cmd_copy_buffer(size) == [kind |-> "copy_buffer", size |-> size]

\* what the device does with one recorded command
ExecuteCopy(dst, src, cmd) ==
    [i \in 1..BufLen |-> IF i <= cmd.size THEN src[i] ELSE dst[i]]

RECURSIVE ExecuteCopies(_, _, _)
ExecuteCopies(dst, src, cmds) ==
    IF cmds = <<>> THEN dst
    ELSE ExecuteCopies(ExecuteCopy(dst, src, Head(cmds)), src, Tail(cmds))

\* queue_submit of the immediate buffer.  The buffer was begun and never
\* ended, so it is handed over in the recording state; what the driver does
\* with it is not defined: it may reject the submission, execute what was
\* recorded, or execute nothing and still signal the fence.
QueueSubmitOutcomes(state) ==
    IF state = "executable"
    THEN {"executes", "Submission"}
    ELSE {"executes", "ignored", "Submission"}

\* an immediate_command whose device guard lives until the function returns
ImmLockDuringCallback_Held == "immediate_command"

\* the device mutex while f runs: the guard of immediate_command's first
\* block is dropped at the end of that block, before f is called
ImmLockDuringCallback == "free"

\* begin_command_buffer(immediate_cmd_buffer); the host has filled a fresh
\* staging buffer and created the destination
immediate_command_begin ==
    /\ immPc = "idle"
    /\ immCalls < MaxImmCalls
    /\ immCalls' = immCalls + 1
    /\ srcBuffer' \in [1..BufLen -> Bytes]
    /\ dstBuffer' = Zeroed
    /\ copySize' \in 1..BufLen
    /\ \/ /\ deviceLock = "free"
          /\ immBuf' = "recording"
          /\ immRecorded' = <<>>
          /\ immPc' = "f"
          /\ deviceLock' = ImmLockDuringCallback
          /\ UNCHANGED immResult
       \/ /\ deviceLock = "free"
          /\ ImmReturn("Begin")
          /\ UNCHANGED <<immBuf, immRecorded, deviceLock>>
       \/ /\ deviceLock # "free"
          /\ immPc' \in RelockOutcomes
          /\ UNCHANGED <<immResult, immBuf, immRecorded, deviceLock>>
    /\ UNCHANGED <<immFence, immInflight>>
    /\ UNCHANGED <<frameVars, registryVars, resourceVars, meshVars>>

\* f(&self.immediate_cmd_buffer): the closure of the uploads takes the
\* device lock itself to record cmd_copy_buffer
immediate_command_f ==
    /\ immPc = "f"
    /\ IF deviceLock = "free"
       THEN /\ immRecorded' = Append(immRecorded, cmd_copy_buffer(copySize))
            /\ immPc' = "submit"
       ELSE /\ immPc' \in RelockOutcomes
            /\ UNCHANGED immRecorded
    /\ UNCHANGED <<immResult, immBuf, immFence, immInflight, srcBuffer,
                   dstBuffer, copySize, immCalls, deviceLock>>
    /\ UNCHANGED <<frameVars, registryVars, resourceVars, meshVars>>

\* queue_submit(graphics_queue, [immediate_cmd_buffer], immediate_fence)
immediate_command_submit ==
    /\ immPc = "submit"
    /\ \/ /\ deviceLock # "free"
          /\ immPc' \in RelockOutcomes
          /\ UNCHANGED <<immResult, immInflight, immBuf, deviceLock>>
       \/ /\ deviceLock = "free"
          /\ \E outcome \in QueueSubmitOutcomes(immBuf) :
            \/ /\ outcome = "executes"
               /\ immInflight' = Append(immInflight, immRecorded)
               /\ immBuf' = "pending"
               /\ immPc' = "wait"
               /\ deviceLock' = "immediate_command"
               /\ UNCHANGED immResult
            \/ /\ outcome = "ignored"
               /\ immInflight' = Append(immInflight, <<>>)
               /\ immBuf' = "pending"
               /\ immPc' = "wait"
               /\ deviceLock' = "immediate_command"
               /\ UNCHANGED immResult
            \/ /\ outcome = "Submission"
               /\ ImmReturn("Submission")
               /\ UNCHANGED <<immInflight, immBuf, deviceLock>>
    /\ UNCHANGED <<immRecorded, immFence, srcBuffer, dstBuffer, copySize,
                   immCalls>>
    /\ UNCHANGED <<frameVars, registryVars, resourceVars, meshVars>>

\* the device finishes one immediate submission and signals the fence
ImmGpuExecute ==
    /\ immInflight # <<>>
    /\ dstBuffer' = ExecuteCopies(dstBuffer, srcBuffer, Head(immInflight))
    /\ immInflight' = Tail(immInflight)
    /\ immFence' = "signaled"
    /\ immBuf' = IF immBuf = "pending" THEN "invalid" ELSE immBuf
    /\ UNCHANGED <<immPc, immResult, immRecorded, srcBuffer, copySize,
                   immCalls, deviceLock>>
    /\ UNCHANGED <<frameVars, registryVars, resourceVars, meshVars>>

\* wait_for_fences(u64::MAX), reset_fences, reset_command_buffer
immediate_command_wait ==
    /\ immPc = "wait"
    /\ deviceLock' = "free"
    /\ \/ /\ immFence = "signaled"
          /\ \/ /\ immFence' = "unsignaled"
                /\ \/ /\ immBuf' = "initial"
                      /\ immRecorded' = <<>>
                      /\ ImmReturn("Ok")
                   \/ /\ ImmReturn("Reset")
                      /\ UNCHANGED <<immBuf, immRecorded>>
             \/ /\ ImmReturn("Reset")
                /\ UNCHANGED <<immFence, immBuf, immRecorded>>
       \/ /\ ImmReturn("FenceWaiting")
          /\ UNCHANGED <<immFence, immBuf, immRecorded>>
    /\ UNCHANGED <<immInflight, srcBuffer, dstBuffer, copySize, immCalls>>
    /\ UNCHANGED <<frameVars, registryVars, resourceVars, meshVars>>

InitImmediate ==
    /\ ContextNew /\ RegistryIdle /\ ResourcesIdle /\ MeshIdle
    /\ immPc = "idle"
    /\ immResult = "none"
    /\ immBuf = "initial"
    /\ immRecorded = <<>>
    /\ immFence = "unsignaled"
    /\ immInflight = <<>>
    /\ srcBuffer = Zeroed
    /\ dstBuffer = Zeroed
    /\ copySize = 0
    /\ immCalls = 0
    /\ deviceLock = "free"

NextImmediate ==
    \/ immediate_command_begin
    \/ immediate_command_f
    \/ immediate_command_submit
    \/ ImmGpuExecute
    \/ immediate_command_wait

SpecImmediate == InitImmediate /\ [][NextImmediate]_vars

\* C8: when immediate_command has returned Ok the device has finished the
\* submission, the first N bytes of the destination equal those of the
\* source, the immediate fence is unsignaled and the buffer is reset.
C8_OkMeansCopyDone ==
    (immPc = "idle" /\ immResult = "Ok") =>
        /\ immInflight = <<>>
        /\ immFence = "unsignaled"
        /\ immBuf = "initial"
        /\ \A i \in 1..copySize : dstBuffer[i] = srcBuffer[i]

\* C31: a command buffer handed to queue_submit is in the executable
\* state: the render buffer when render_command reaches its submit, the
\* immediate buffer when immediate_command reaches its submit.
C31_SubmittedExecutable ==
    /\ pc = "submit" => renderBuf = "executable"
    /\ immPc = "submit" => immBuf = "executable"

(***************************************************************************)
(* immediate_command called by a pass recorder, that is from inside the    *)
(* callback of render_command (gfx/commands.rs).                           *)
(***************************************************************************)
\* the recorder of the pass RenderGraph::render is at is running
InCallback == pc = "render" /\ passIdx <= Len(graph.render_passes)

\* the host thread is not inside immediate_command
HostInFrame == immPc = "idle"

\* the recorder uploads a full staging buffer of ones
nested_immediate_command ==
    /\ InCallback /\ immCalls < MaxNestedCalls
    /\ immediate_command_begin
    /\ copySize' = BufLen
    /\ srcBuffer' = [i \in 1..BufLen |-> 1]

\* the host binds the g-buffer graph
bind_g_buffer ==
    /\ bind_rendergraph
    /\ lastBind'.result = "Ok"
    /\ graph'.render_passes = <<RenderPass("g-buffer")>>

NextNested ==
    \/ bind_g_buffer
    \/ HostInFrame /\ render_frame_once
    \/ HostInFrame /\ next_image
    \/ HostInFrame /\ render_frame_recreate
    \/ HostInFrame /\ render_frame_assign
    \/ HostInFrame /\ render_command_begin
    \/ HostInFrame /\ RenderGraph_render
    \/ HostInFrame /\ ensure_presentable
    \/ HostInFrame /\ render_command_end
    \/ HostInFrame /\ render_command_submit
    \/ HostInFrame /\ present
    \/ GpuExecute
    \/ nested_immediate_command
    \/ immediate_command_f
    \/ immediate_command_submit
    \/ ImmGpuExecute
    \/ immediate_command_wait

SpecNested == Init /\ [][NextNested]_vars

\* C34: the device mutex is not held by render_command while its callback
\* runs, not held at all while the callback of immediate_command runs, and
\* not held by Swapchain::new while the depth images are built; no call of
\* the thread ends blocked or panicked on a mutex it holds itself.
C34_NoLockAcrossCallback ==
    /\ InCallback => deviceLock # "render_command"
    /\ immPc = "f" => deviceLock = "free"
    /\ pc = "swapchain_assign" => deviceLock = "free"
    /\ LockDuringDepthImages = "free"
    /\ pc \notin RelockOutcomes /\ immPc \notin RelockOutcomes

\* the callback of an immediate_command, itself called by a pass recorder,
\* has taken the device mutex and recorded its copy
C34_Witness ==
    /\ InCallback /\ immPc = "submit" /\ immRecorded # <<>>
    /\ OpNames({"f"}) # <<>> /\ deviceLock = "free"

\* C20 as stated: an immediate_command called from inside a render_command
\* callback never returns.
C20_NestedCallNeverReturns ==
    immCalls > 0 => ~(immPc = "idle" /\ immResult = "Ok")

\* C20: an immediate_command called from inside a render_command callback
\* is never blocked on the device mutex, which is free whenever the call
\* locks it and held by the call only while it waits for the immediate
\* fence; while it waits its own submission is in flight or has signaled
\* the fence.
C20_NestedCallNotBlocked ==
    /\ immPc \notin RelockOutcomes
    /\ InCallback /\ immPc \in {"idle", "f", "submit"} => deviceLock = "free"
    /\ immPc = "wait" <=> deviceLock = "immediate_command"
    /\ immPc = "wait" => immFence = "signaled" \/ immInflight # <<>>
    /\ immPc # "idle" => InCallback

\* the nested call returned Ok and the frame was submitted and presented
C20_Witness ==
    /\ immCalls > 0 /\ immResult = "Ok" /\ immPc = "idle"
    /\ lastResult = "Ok" /\ pc = "idle" /\ frame > 0 /\ presented # <<>>

(***************************************************************************)
(* upload_vertex_buffer and upload_index_buffer (gfx/mesh.rs).             *)
(***************************************************************************)
\* the errors an upload returns before it reaches immediate_command, and
\* whether the staging buffer existed and was dropped on that return
UploadSetupErrors ==
    {[result |-> "StagingBufferCreation", staging |-> "none"],
     [result |-> "MemoryMapping", staging |-> "destroyed"],
     [result |-> "MainBufferCreation", staging |-> "destroyed"]}

\* the staging buffer is built and filled and the GPU-only buffer is built
upload_buffer_begin ==
    /\ upload.pc = "idle" /\ immPc = "idle" /\ immCalls < MaxImmCalls
    /\ \/ upload' = [pc |-> "immediate_command", staging |-> "alive",
                     result |-> "none", calls |-> immCalls]
       \/ \E e \in UploadSetupErrors :
            upload' = [pc |-> "idle", staging |-> e.staging,
                       result |-> e.result, calls |-> immCalls]
    /\ UNCHANGED <<frameVars, registryVars, immediateVars, resourceVars>>

\* ctx.command_manager.immediate_command(|cmd_buffer| cmd_copy_buffer(..))
\* with one BufferCopy of the whole data
upload_immediate_command ==
    /\ upload.pc = "immediate_command" /\ immCalls = upload.calls
    /\ immediate_command_begin
    /\ copySize' = BufLen

\* .map_err(UploadError::CopyCommand)?; Ok(buffer): the staging buffer is
\* dropped when the function returns, whatever it returns
upload_buffer_return ==
    /\ upload.pc = "immediate_command" /\ immCalls > upload.calls
    /\ immPc = "idle"
    /\ upload' = [upload EXCEPT
                    !.pc = "idle",
                    !.staging = "destroyed",
                    !.result = IF immResult = "Ok" THEN "Ok"
                               ELSE "CopyCommand"]
    /\ UNCHANGED <<frameVars, registryVars, immediateVars, resourceVars>>

NextMesh ==
    \/ upload_buffer_begin
    \/ upload_immediate_command
    \/ immediate_command_f
    \/ immediate_command_submit
    \/ ImmGpuExecute
    \/ immediate_command_wait
    \/ upload_buffer_return

SpecMesh == InitImmediate /\ [][NextMesh]_vars

\* C22: when an upload has returned Ok the copy from the staging buffer to
\* the destination has completed and one immediate_command was issued for
\* it, and the staging buffer is never destroyed while the copy is still
\* to be executed.
C22_UploadSynchronous ==
    /\ (upload.pc = "idle" /\ upload.result = "Ok") =>
        /\ immInflight = <<>>
        /\ immCalls = upload.calls + 1
        /\ \A i \in 1..BufLen : dstBuffer[i] = srcBuffer[i]
    /\ upload.staging = "destroyed" => immInflight = <<>>

(***************************************************************************)
(* Image and Buffer construction, the Allocation wrapper and               *)
(* ResourceInfoRegistry::create_resources (gfx/image.rs, gfx/buffer.rs,    *)
(* gfx/allocator.rs, gfx/render_graph/resource.rs).                        *)
(***************************************************************************)
\* Allocator::allocate: the wrapper around a new allocation
Allocator_allocate == [released |-> FALSE, frees |-> 0]

\* impl Drop for Allocation: take the handle, lock the allocator, free.
\* When the calling thread already holds the allocator's mutex the lock()
\* does not return (it blocks forever or panics) and nothing is freed.
Allocation_drop(allocation, lock) ==
    IF allocation.released THEN allocation
    ELSE IF lock = "free"
         THEN [released |-> TRUE, frees |-> allocation.frees + 1]
         ELSE [released |-> TRUE, frees |-> allocation.frees]

ImageBuildOutcomes ==
    {"Ok", "VulkanCreation", "Allocation", "MemoryBind", "ImageViewCreation"}

\* ImageCreateInfo::build_from_base_structs with native handle n: the
\* objects it leaves on the device, the allocation it leaves in the
\* allocator, and how it ends.  The guard `allocator` lives until the
\* function returns, so the `?` after allocate drops _allocation under it.
build_from_base_structs(create_info, n, outcome, relock) ==
    LET created == outcome # "VulkanCreation"
        allocated == outcome \notin {"VulkanCreation", "Allocation"}
        dropped == outcome \in {"MemoryBind", "ImageViewCreation"}
    IN  [natives |-> (IF created THEN {<<"image", n>>} ELSE {})
                     \cup (IF outcome = "Ok" THEN {<<"view", n>>} ELSE {}),
         allocation |-> IF ~allocated THEN <<>>
                        ELSE IF dropped
                             THEN <<Allocation_drop(Allocator_allocate, "held")>>
                             ELSE <<Allocator_allocate>>,
         ends |-> IF outcome = "Ok" THEN "Ok"
                  ELSE IF dropped THEN relock ELSE "Err",
         image |-> [handle |-> n, view |-> n, allocation |-> n,
                    extent |-> create_info.extent,
                    layout |-> UNDEFINED]]

\* impl Drop for Image, then the drop of its _allocation field
Image_drop_natives(images) ==
    UNION {{<<"view", i.view>>, <<"image", i.handle>>} : i \in images}

DropAllocations(allocs, ids, lock) ==
    [a \in DOMAIN allocs |->
        IF a \in ids THEN Allocation_drop(allocs[a], lock) ELSE allocs[a]]

\* what gpu_allocator's free can answer
FreeResults == {"Ok", "Err"}

Call(call, handle, result) ==
    [call |-> call, handle |-> handle, result |-> result]

\* the calls impl Drop for Allocation makes on allocation n:
\* `let _ = self.allocator_ref.lock().inner.free(allocation)` and nothing
\* else, whatever free answers
Allocation_drop_calls(n, allocation, lock, free_result) ==
    IF allocation.released \/ lock # "free" THEN <<>>
    ELSE <<Call("free", n, free_result)>>

\* a drop of the Image that frees its allocation before the natives
Image_drop_calls_AllocationFirst(image, allocs, lock, free_result) ==
    Allocation_drop_calls(image.allocation, allocs[image.allocation], lock,
                          free_result)
    \o <<Call("destroy_image_view", image.view, "none"),
         Call("destroy_image", image.handle, "none")>>

\* the calls of impl Drop for Image in their order: drop() destroys the
\* view and then the image, the fields are dropped after it
Image_drop_calls(image, allocs, lock, free_result) ==
    <<Call("destroy_image_view", image.view, "none"),
      Call("destroy_image", image.handle, "none")>>
    \o Allocation_drop_calls(image.allocation, allocs[image.allocation], lock,
                             free_result)

\* the drops of several images, here by ascending handle
RECURSIVE Images_drop_calls(_, _, _, _)
Images_drop_calls(images, allocs, lock, free_result) ==
    IF images = {} THEN <<>>
    ELSE LET image == CHOOSE i \in images :
                          \A j \in images : i.handle <= j.handle
         IN  Image_drop_calls(image, allocs, lock, free_result)
             \o Images_drop_calls(images \ {image}, allocs, lock,
                                  free_result)

\* the calls of impl Drop for Buffer in their order
Buffer_drop_calls(buffer, allocs, lock, free_result) ==
    <<Call("destroy_buffer", buffer.handle, "none")>>
    \o Allocation_drop_calls(buffer.allocation, allocs[buffer.allocation],
                             lock, free_result)

\* the registries a host hands to create_resources
ResourceRegistries ==
    {{}} \cup
    {{[ImageAttachmentInfo_new("albedo", 3) EXCEPT !.size = size]} :
        size \in {SwapchainBased} \cup {Custom(e) : e \in CustomExtents}}
    \cup
    {{[ImageAttachmentInfo_new("albedo", 3) EXCEPT !.size = Custom(e)],
      ImageAttachmentInfo_new("normal", 4)} : e \in CustomExtents}

\* ResourceInfoRegistry::create_resources: self.infos.into_iter(), in the
\* order the HashMap yields its entries
create_resources_begin ==
    /\ resPc = "idle" /\ heldImages = {}
    /\ \E infos \in ResourceRegistries :
        \E order \in [1..Cardinality(infos) -> infos] :
            /\ {order[i] : i \in DOMAIN order} = infos
            /\ nextNative + Cardinality(infos) <= MaxNatives + 1
            /\ todo' = order
            /\ IF infos = {}
               THEN /\ resPc' = "idle"
                    /\ lastCreate' = [result |-> "Ok", first |-> nextNative,
                                       last |-> nextNative - 1]
               ELSE /\ resPc' = "create_resources"
                    /\ lastCreate' = [result |-> "running",
                                       first |-> nextNative,
                                       last |-> nextNative - 1]
    /\ made' = {}
    /\ UNCHANGED <<natives, allocations, allocatorLock, heldImages,
                   heldBuffers, nextNative, lastBuild, lastUpload, lastDrop>>
    /\ UNCHANGED <<frameVars, registryVars, immediateVars, meshVars>>

\* one turn of the map/collect of create_resources:
\* ImageAttachment::from_info on the next description.  On an error the
\* collect drops the attachments it holds and create_resources returns.
ImageAttachment_from_info ==
    /\ resPc = "create_resources" /\ todo # <<>>
    /\ \E outcome \in ImageBuildOutcomes, relock \in RelockOutcomes,
          free_result \in FreeResults :
        LET info == Head(todo)
            create_info ==
                ImageCreateInfo_build(from_attachment_info(info), swapchain)
            n == nextNative
            b == build_from_base_structs(create_info, n, outcome, relock)
            attachment == [image |-> b.image, info |-> info]
            withNew == IF b.allocation = <<>> THEN allocations
                       ELSE (n :> b.allocation[1]) @@ allocations
            madeImages == {a.image : a \in made}
        IN
        /\ nextNative' = n + 1
        /\ lastBuild' = [kind |-> "image", result |-> outcome,
                          ends |-> b.ends, handle |-> n]
        /\ \/ /\ b.ends = "Ok"
              /\ natives' = natives \cup b.natives
              /\ allocations' = withNew
              /\ allocatorLock' = "free"
              /\ todo' = Tail(todo)
              /\ IF Tail(todo) = <<>>
                 THEN /\ heldImages' = made \cup {attachment}
                      /\ made' = {}
                      /\ resPc' = "idle"
                      /\ lastCreate' = [lastCreate EXCEPT !.result = "Ok",
                                                           !.last = n]
                 ELSE /\ made' = made \cup {attachment}
                      /\ UNCHANGED <<heldImages, resPc, lastCreate>>
              /\ UNCHANGED lastDrop
           \/ /\ b.ends \in {"Err", "panic"}
              /\ natives' = (natives \cup b.natives)
                                \ Image_drop_natives(madeImages)
              /\ allocations' =
                    DropAllocations(withNew,
                                    {i.allocation : i \in madeImages}, "free")
              /\ allocatorLock' = "free"
              /\ todo' = <<>>
              /\ made' = {}
              /\ resPc' = IF b.ends = "Err" THEN "idle" ELSE "panicked"
              /\ lastCreate' = [lastCreate EXCEPT !.result = b.ends,
                                                   !.last = n]
              /\ lastDrop' = IF madeImages = {} THEN lastDrop
                             ELSE Images_drop_calls(madeImages, withNew,
                                                    "free", free_result)
              /\ UNCHANGED heldImages
           \/ /\ b.ends = "deadlock"
              /\ natives' = natives \cup b.natives
              /\ allocations' = withNew
              /\ allocatorLock' = "held"
              /\ resPc' = "deadlocked"
              /\ lastCreate' = [lastCreate EXCEPT !.result = "deadlock",
                                                   !.last = n]
              /\ UNCHANGED <<todo, made, heldImages, lastDrop>>
    /\ UNCHANGED <<heldBuffers, lastUpload>>
    /\ UNCHANGED <<frameVars, registryVars, immediateVars, meshVars>>

\* the host drops the GraphResourceRegistry: every Image is dropped
GraphResourceRegistry_drop ==
    /\ resPc = "idle" /\ heldImages # {}
    /\ \E free_result \in FreeResults :
        LET images == {a.image : a \in heldImages} IN
        /\ natives' = natives \ Image_drop_natives(images)
        /\ allocations' =
              DropAllocations(allocations,
                              {i.allocation : i \in images}, allocatorLock)
        /\ lastDrop' = Images_drop_calls(images, allocations, allocatorLock,
                                         free_result)
    /\ heldImages' = {}
    /\ UNCHANGED <<allocatorLock, resPc, todo, made, heldBuffers, nextNative,
                   lastBuild, lastCreate, lastUpload>>
    /\ UNCHANGED <<frameVars, registryVars, immediateVars, meshVars>>

BufferBuildOutcomes == {"Ok", "VulkanCreation", "Allocation", "AllocationBinding"}

\* BufferBuilder::build_internal: the allocator is locked for the allocate
\* call only, so the allocation dropped by the `?` after bind_buffer_memory
\* is freed; the native buffer is not destroyed on any error path.
build_internal ==
    /\ resPc = "idle"
    /\ nextNative <= MaxNatives
    /\ heldBuffers = {}
    /\ \E size \in 1..BufLen, slack \in {0, 1}, mapped \in BOOLEAN,
          outcome \in BufferBuildOutcomes, free_result \in FreeResults :
        LET n == nextNative
            created == outcome # "VulkanCreation"
            allocated == outcome \notin {"VulkanCreation", "Allocation"}
            allocation == IF outcome = "Ok" THEN Allocator_allocate
                          ELSE Allocation_drop(Allocator_allocate, allocatorLock)
            buffer == [handle |-> n, allocation |-> n, size |-> size,
                       allocation_size |-> size + slack, mapped |-> mapped,
                       bytes |-> IF mapped THEN [i \in 1..(size + slack) |-> 0]
                                 ELSE <<>>]
        IN
        /\ natives' = natives \cup
                        (IF created THEN {<<"buffer", n>>} ELSE {})
        /\ allocations' = IF allocated THEN (n :> allocation) @@ allocations
                          ELSE allocations
        /\ heldBuffers' = IF outcome = "Ok" THEN heldBuffers \cup {buffer}
                          ELSE heldBuffers
        /\ lastBuild' = [kind |-> "buffer", result |-> outcome,
                          ends |-> IF outcome = "Ok" THEN "Ok" ELSE "Err",
                          handle |-> n]
        /\ lastDrop' = IF outcome = "AllocationBinding"
                       THEN Allocation_drop_calls(n, Allocator_allocate,
                                                  allocatorLock, free_result)
                       ELSE lastDrop
    /\ nextNative' = nextNative + 1
    /\ UNCHANGED <<allocatorLock, resPc, todo, made, heldImages, lastCreate,
                   lastUpload>>
    /\ UNCHANGED <<frameVars, registryVars, immediateVars, meshVars>>

\* impl Drop for Buffer, then the drop of its allocation field
Buffer_drop ==
    /\ resPc = "idle"
    /\ \E buffer \in heldBuffers, free_result \in FreeResults :
        /\ natives' = natives \ {<<"buffer", buffer.handle>>}
        /\ allocations' = DropAllocations(allocations, {buffer.allocation},
                                          allocatorLock)
        /\ lastDrop' = Buffer_drop_calls(buffer, allocations, allocatorLock,
                                         free_result)
        /\ heldBuffers' = heldBuffers \ {buffer}
    /\ UNCHANGED <<allocatorLock, resPc, todo, made, heldImages, nextNative,
                   lastBuild, lastCreate, lastUpload>>
    /\ UNCHANGED <<frameVars, registryVars, immediateVars, meshVars>>

\* the byte slices a host uploads: one of every length up to one more than
\* the largest allocation
Payloads == {[i \in 1..k |-> 1 + (k % 2)] : k \in 1..(BufLen + 2)}

\* Buffer::upload_data: mapped_slice_mut().ok_or(MemoryMapping)?
\* [..data.len()].copy_from_slice(data); the slice index panics when the
\* data is longer than the mapping
Buffer_upload_data(buffer, data) ==
    IF ~buffer.mapped
    THEN [result |-> "MemoryMapping", bytes |-> buffer.bytes]
    ELSE IF Len(data) > Len(buffer.bytes)
         THEN [result |-> "panic", bytes |-> buffer.bytes]
         ELSE [result |-> "Ok",
               bytes |-> data \o SubSeq(buffer.bytes, Len(data) + 1,
                                        Len(buffer.bytes))]

\* a size check against the size the buffer was asked for
PodTooLarge_BufferSize(buffer, pod) == buffer.size < Len(pod)

\* the check of upload_pod: self.allocation.size() < size_of::<T>()
PodTooLarge(buffer, pod) == buffer.allocation_size < Len(pod)

\* Buffer::upload_pod
Buffer_upload_pod(buffer, pod) ==
    IF PodTooLarge(buffer, pod)
    THEN [result |-> "SizeMismatch", bytes |-> buffer.bytes]
    ELSE Buffer_upload_data(buffer, pod)

Upload(op, buffer, data, done) ==
    /\ heldBuffers' = (heldBuffers \ {buffer})
                        \cup {[buffer EXCEPT !.bytes = done.bytes]}
    /\ lastUpload' = [op |-> op, result |-> done.result, data |-> data,
                       before |-> buffer.bytes, after |-> done.bytes,
                       allocation_size |-> buffer.allocation_size,
                       mapped |-> buffer.mapped]
    /\ resPc' = IF done.result = "panic" THEN "panicked" ELSE resPc
    /\ UNCHANGED <<natives, allocations, allocatorLock, todo, made,
                   heldImages, nextNative, lastBuild, lastCreate, lastDrop>>
    /\ UNCHANGED <<frameVars, registryVars, immediateVars, meshVars>>

upload_pod ==
    /\ resPc = "idle"
    /\ \E buffer \in heldBuffers, pod \in Payloads :
        Upload("upload_pod", buffer, pod, Buffer_upload_pod(buffer, pod))

upload_data ==
    /\ resPc = "idle"
    /\ \E buffer \in heldBuffers, data \in Payloads :
        Upload("upload_data", buffer, data, Buffer_upload_data(buffer, data))

InitResources ==
    /\ ContextNew /\ RegistryIdle /\ ImmediateIdle /\ ResourcesIdle
    /\ MeshIdle

NextResources ==
    \/ create_resources_begin
    \/ ImageAttachment_from_info
    \/ GraphResourceRegistry_drop
    \/ build_internal
    \/ Buffer_drop

SpecResources == InitResources /\ [][NextResources]_vars

\* no free of the last drop failed
FreesSucceed == \A i \in DOMAIN lastDrop : lastDrop[i].result # "Err"

\* the uploads do not read what free answered: the hosts of this
\* specification run against an allocator whose frees succeed
NextUpload ==
    \/ build_internal /\ FreesSucceed'
    \/ Buffer_drop /\ FreesSucceed'
    \/ upload_pod
    \/ upload_data

SpecUpload == InitResources /\ [][NextUpload]_vars

\* native handle n is gone from the device and its allocation, if one was
\* issued, was freed
NothingAliveOf(n) ==
    /\ natives \cap {<<"image", n>>, <<"view", n>>, <<"buffer", n>>} = {}
    /\ n \in DOMAIN allocations => allocations[n].frees = 1

\* C11: when create_resources has not succeeded it has returned an error,
\* handed out no registry, and none of the images, views and allocations
\* it created for any description is still alive.
C11_CreateResourcesAllOrNothing ==
    lastCreate.result \notin {"none", "running", "Ok"} =>
        /\ lastCreate.result = "Err"
        /\ heldImages = {}
        /\ \A n \in lastCreate.first .. lastCreate.last : NothingAliveOf(n)

\* C12: when an Image or Buffer build failed at a step after the creation
\* of the native object, it returned the error of that step and neither the
\* native handle nor its allocation is alive.
C12_BuildIsAtomic ==
    lastBuild.result \notin {"none", "Ok", "VulkanCreation"} =>
        /\ lastBuild.ends = "Err"
        /\ NothingAliveOf(lastBuild.handle)

\* C13: an Allocation is never freed twice, and once it has been released
\* it has been freed exactly once.
C13_AllocationFreedOnce ==
    \A a \in DOMAIN allocations :
        /\ allocations[a].frees <= 1
        /\ allocations[a].released => allocations[a].frees = 1

C14_WitnessRefused ==
    /\ lastUpload.result = "SizeMismatch" /\ lastUpload.op = "upload_pod"
    /\ Len(lastUpload.data) = lastUpload.allocation_size + 1

\* C15: upload_data with a slice longer than the mapping returns
\* SizeMismatch and writes nothing.
C15_UploadDataSizeMismatch ==
    (lastUpload.result # "none" /\ lastUpload.op = "upload_data"
        /\ lastUpload.mapped
        /\ Len(lastUpload.data) > lastUpload.allocation_size) =>
            /\ lastUpload.result = "SizeMismatch"
            /\ lastUpload.after = lastUpload.before

\* C17: an image built for a description of size Custom(e) has extent e,
\* and one built for SwapchainBased has the swapchain's extent with depth 1.
C17_ExtentAsRequested ==
    \A a \in heldImages \cup made :
        a.image.extent =
            IF a.info.size.kind = "Custom"
            THEN a.info.size.extent
            ELSE Extent3D_from(swapchain.extent)

\* C24: a free that fails while an Allocation is dropped is logged: the
\* drop that made the failing call makes a logging call for it afterwards.
C24_FreeFailureLogged ==
    \A i \in DOMAIN lastDrop :
        (lastDrop[i].call = "free" /\ lastDrop[i].result = "Err") =>
            \E j \in DOMAIN lastDrop :
                /\ j > i
                /\ lastDrop[j].call = "log::error"
                /\ lastDrop[j].handle = lastDrop[i].handle

\* the place of a call in the release of one resource
ReleaseRank(call) ==
    IF call = "destroy_image_view" THEN 1
    ELSE IF call \in {"destroy_image", "destroy_buffer"} THEN 2
    ELSE 3

\* C28: in the release of an Image the view is destroyed before the native
\* image and the allocation is freed after both; in the release of a Buffer
\* the native buffer is destroyed before the allocation is freed.
C28_ReleaseOrder ==
    \A i, j \in DOMAIN lastDrop :
        (/\ lastDrop[i].handle = lastDrop[j].handle
         /\ ReleaseRank(lastDrop[i].call) < ReleaseRank(lastDrop[j].call))
            => i < j

\* an Image was released with its view, its native image and its allocation
C28_Witness ==
    \E i, j, k \in DOMAIN lastDrop :
        /\ lastDrop[i].call = "destroy_image_view"
        /\ lastDrop[j].call = "destroy_image"
        /\ lastDrop[k].call = "free"
        /\ lastDrop[i].handle = lastDrop[k].handle
        /\ lastDrop[j].handle = lastDrop[k].handle
        /\ heldImages = {}

\* a Buffer was released with its native buffer and its allocation
C28_WitnessBuffer ==
    \E i, k \in DOMAIN lastDrop :
        /\ lastDrop[i].call = "destroy_buffer"
        /\ lastDrop[k].call = "free"
        /\ lastDrop[i].handle = lastDrop[k].handle

\* C32: an Image build that failed at memory binding or at the creation of
\* the view has terminated and returned that error: the release of its
\* Allocation did not block on the allocator lock.
C32_FailedImageBuildReturns ==
    (lastBuild.result \in {"MemoryBind", "ImageViewCreation"}
        /\ lastBuild.kind = "image") =>
            /\ lastBuild.ends = "Err"
            /\ resPc \notin {"deadlocked", "panicked"}
            /\ allocatorLock = "free"

====
